---- MODULE Spec2Model ----
(***************************************************************************)
(* Model of the persistent circular log (FlashRing) with its pre-erase     *)
(* task, and of the flash writer task of DataPipeline that feeds it.       *)
(*                                                                         *)
(* Sizes are scaled down: a page has PAGE_SIZE bytes and the partition has *)
(* NumPages pages.  A flash byte is a number; an erased byte is Erased and *)
(* programming a byte ANDs the data into the stored value, as NOR flash    *)
(* does.                                                                   *)
(***************************************************************************)
EXTENDS Integers, Sequences, FiniteSets, TLC

\* ---------------------------------------------------------------- bounds
PAGE_SIZE == 2
NumPages == 4
NumVals == 3
MaxTotal == 14
MaxTotalRd == 9
MaxTotalFault == 10
MaxFaultIter == 1
FlushTimeoutTicks == 2
MaxStream == 6
MaxFailIdx == 2
MaxFlushCalls == 1
MaxStreamRun == 4
MaxTotalBoot == 11
MaxTotalStep == 6
MaxStreamCap == 8
MaxStreamLive == 3

\* ------------------------------------------------------ program constants
PRE_ERASE_PAGES == 2
SIZE_MAX == 0 - 1
Erased == 255
ChunkPages == 3

s_partitionSize == NumPages * PAGE_SIZE
s_totalPages == s_partitionSize \div PAGE_SIZE

ESP_OK == "ESP_OK"
ESP_FAIL == "ESP_FAIL"
ESP_ERR_INVALID_SIZE == "ESP_ERR_INVALID_SIZE"
ESP_ERR_INVALID_STATE == "ESP_ERR_INVALID_STATE"
ESP_ERR_NO_MEM == "ESP_ERR_NO_MEM"

Pages == 0 .. (s_totalPages - 1)
Offsets == 0 .. (s_partitionSize - 1)
Slots == 1 .. PRE_ERASE_PAGES

VARIABLES
  s_initialized,   \* FlashRing: module initialised
  head,            \* s_meta.head
  tail,            \* s_meta.tail
  totalWritten,    \* s_meta.totalWritten
  wrapCount,       \* s_meta.wrapCount
  metaErased,      \* s_meta.erasedPages[]
  s_erasedPages,   \* RAM copy of the erased page cache
  flash,           \* contents of the partition, one value per byte offset
  nvs,             \* the Metadata blob stored in NVS
  erasedBit,       \* shadow: page erased since its last physical write
  crossings,       \* shadow: sub-writes that took head from high to low
  op,              \* the last API call or task step, with its outcome
  rd,              \* what the last read returned, NoRead once the log changed
  s_running,       \* DataPipeline: the running flag
  pendingBytes,    \* writerTask: bytes staged in writeBuf
  writeBuf,        \* writerTask: the staged bytes, as positions in the stream
  elapsed,         \* writerTask: ticks since lastDataTime, up to the timeout + 1
  fed,             \* bytes the capture side has put into the ring buffer
  pulled,          \* bytes writerTask has received from the ring buffer
  s_flushSem,      \* the binary semaphore given by flush()
  flushPc,         \* where the caller of flush() is
  s_stats,         \* DataPipeline statistics
  issued,          \* shadow: the FlashRing::write calls of writerTask, in order
  sinceFeed,       \* shadow: ticks since the last byte was fed, capped
  gapped,          \* shadow: bytes were fed after an idle gap over the timeout
  flushCalls,      \* shadow: number of flush() calls
  head0,           \* shadow: head when the pipeline started
  metaFlushes,     \* shadow: number of FlashRing::flushMetadata calls
  dp_initialized,  \* DataPipeline: s_initialized of the pipeline module
  taskPc,          \* where writerTask is: none, created, loop, noring, nobuf
  wr,              \* the write() call in progress, when taken step by step
  et,              \* the iteration of eraseTask in progress, step by step
  confirmedPage,   \* shadow: the page of head that write() found or made
                   \* erased, SIZE_MAX once head has left it
  er               \* the erase() call in progress, when taken step by step

frVars == <<s_initialized, head, tail, totalWritten, wrapCount, metaErased,
            s_erasedPages, flash, nvs, erasedBit, crossings, op, rd>>

pipeVars == <<s_running, pendingBytes, writeBuf, elapsed, fed, pulled,
              s_flushSem, flushPc, s_stats, issued, sinceFeed, gapped,
              flushCalls, head0, metaFlushes, dp_initialized, taskPc>>

stepVars == <<wr, et, confirmedPage, er>>

\* ------------------------------------------------------------- helpers
Min(a, b) == IF a <= b THEN a ELSE b

RECURSIVE BitAnd(_, _)
BitAnd(a, b) ==
  IF a = 0 \/ b = 0 THEN 0
  ELSE (a % 2) * (b % 2) + 2 * BitAnd(a \div 2, b \div 2)

\* esp_partition_write of one byte: flash programming can only clear bits
Program(old, d) == BitAnd(old, d)

\* esp_partition_erase_range of one page
ErasePage(f, p) ==
  [o \in Offsets |-> IF o \div PAGE_SIZE = p THEN Erased ELSE f[o]]

\* a data buffer of len bytes, starting with value v
Pattern(v, len) == [i \in 1 .. len |-> (v + i - 1) % NumVals]

\* ---------------------------------------------------- cursor arithmetic
getUsedBytesOf(h, t) ==
  IF h >= t THEN h - t ELSE s_partitionSize - t + h

getUsedBytes == getUsedBytesOf(head, tail)

getFreeBytes == s_partitionSize - getUsedBytes - 1

getBytesToPageEndWhole(h) == PAGE_SIZE

getBytesToPageEndOf(h) == PAGE_SIZE - (h % PAGE_SIZE)

getBytesToPageEnd == getBytesToPageEndOf(head)

\* write(): the tail gives way to the chunk when the log is full
advanceTailNoWrap(t, chunkSize) == t + chunkSize

advanceTail(t, chunkSize) == (t + chunkSize) % s_partitionSize

\* ---------------------------------------------------- erased page cache
isPageErased(cache, pageNum) == \E i \in Slots : cache[i] = pageNum

markPageErased(cache, pageNum) ==
  IF \E i \in Slots : cache[i] = SIZE_MAX \/ cache[i] = pageNum
  THEN LET i == CHOOSE k \in Slots :
                  /\ (cache[k] = SIZE_MAX \/ cache[k] = pageNum)
                  /\ \A j \in Slots :
                        (cache[j] = SIZE_MAX \/ cache[j] = pageNum) => k <= j
       IN [cache EXCEPT ![i] = pageNum]
  ELSE [cache EXCEPT ![1] = pageNum]

\* ---------------------------------------------------------------- state
\* The store as one record, so that the loops of the code can be unrolled
\* by recursive operators.
FR == [head |-> head, tail |-> tail, totalWritten |-> totalWritten,
       wrapCount |-> wrapCount, metaErased |-> metaErased,
       cache |-> s_erasedPages, flash |-> flash, ebit |-> erasedBit,
       cross |-> crossings]

MAGIC_NUMBER == "FLRI"

Meta(s) == [magic |-> MAGIC_NUMBER, head |-> s.head, tail |-> s.tail,
            totalWritten |-> s.totalWritten, wrapCount |-> s.wrapCount,
            erasedPages |-> s.metaErased]

\* ensurePageErased: eraseOk tells whether esp_partition_erase_range succeeds
ensurePageErased(s, pageNum, eraseOk) ==
  IF isPageErased(s.cache, pageNum) THEN s
  ELSE IF ~eraseOk THEN s
  ELSE [s EXCEPT !.flash = ErasePage(s.flash, pageNum),
                 !.ebit = [s.ebit EXCEPT ![pageNum] = TRUE],
                 !.cache = markPageErased(s.cache, pageNum),
                 !.metaErased = markPageErased(s.metaErased, pageNum)]

\* A fault is <<kind, iter>>: the erase or the write of iteration iter of
\* the loop of write() fails; NoFault lets every device call succeed.
NoFault == <<"none", 0>>
Faults == {NoFault} \cup ({"erase", "write"} \X (1 .. MaxFaultIter))

\* write(): whether a chunk that finds the log full counts as a wrap
countsEveryChunk(wraps, newHead, oldHead) == TRUE

countsAsWrap(wraps, newHead, oldHead) == wraps = 0 \/ newHead < oldHead

\* the chunk of the current iteration of the loop of write(): bounded by
\* the bytes left, the end of the page and the end of the partition
chunkSizeNoPage(h, remaining) == Min(remaining, s_partitionSize - h)

chunkSizeOf(h, remaining) ==
  Min(remaining, Min(PAGE_SIZE - (h % PAGE_SIZE), s_partitionSize - h))

\* The loop of write(): r is the state so far with the per-call outcome
\* fields, bytesWritten the loop variable, iter the iteration number.
RECURSIVE writeLoop(_, _, _, _, _)
writeLoop(r, data, bytesWritten, iter, fault) ==
  IF bytesWritten >= Len(data) THEN [r EXCEPT !.ret = ESP_OK]
  ELSE
    LET s == r.s
        remaining == Len(data) - bytesWritten
        chunkSize == chunkSizeOf(s.head, remaining)
        newHead == (s.head + chunkSize) % s_partitionSize
        full == getUsedBytesOf(s.head, s.tail) + chunkSize >= s_partitionSize
        s1 == IF full
              THEN [s EXCEPT
                      !.tail = advanceTail(s.tail, chunkSize),
                      !.wrapCount = IF countsAsWrap(s.wrapCount, newHead,
                                                    s.head)
                                    THEN s.wrapCount + 1 ELSE s.wrapCount]
              ELSE s
        currentPage == s.head \div PAGE_SIZE
        cached == isPageErased(s1.cache, currentPage)
        s2 == ensurePageErased(s1, currentPage, fault # <<"erase", iter>>)
        r2 == [r EXCEPT !.s = s2,
                        !.syncErases = r.syncErases
                                         + (IF cached THEN 0 ELSE 1),
                        !.eraseFailed = r.eraseFailed
                                          \/ (~cached
                                              /\ fault = <<"erase", iter>>)]
    IN IF fault = <<"write", iter>>
       THEN [r2 EXCEPT !.ret = ESP_FAIL]
       ELSE
         LET s3 == [s2 EXCEPT
                      !.flash = [o \in Offsets |->
                                   IF o >= s.head /\ o < s.head + chunkSize
                                   THEN Program(s2.flash[o],
                                          data[bytesWritten + 1 + (o - s.head)])
                                   ELSE s2.flash[o]],
                      !.ebit = [s2.ebit EXCEPT ![currentPage] = FALSE],
                      !.cross = s2.cross + (IF newHead < s.head THEN 1 ELSE 0),
                      !.head = newHead,
                      !.totalWritten = s2.totalWritten + chunkSize]
             r3 == [r2 EXCEPT
                      !.s = s3,
                      !.dirty = r2.dirty \/ ~s2.ebit[currentPage],
                      !.reprog = r2.reprog
                                   \/ \E o \in Offsets :
                                        /\ o >= s.head
                                        /\ o < s.head + chunkSize
                                        /\ s2.flash[o] # Erased,
                      !.phys = Append(r2.phys,
                                 [off |-> s.head, len |-> chunkSize,
                                  data |-> SubSeq(data, bytesWritten + 1,
                                             bytesWritten + chunkSize)])]
         IN writeLoop(r3, data, bytesWritten + chunkSize, iter + 1, fault)

\* the outcome of a write() call that has touched nothing yet
writeStart(s) ==
  [s |-> s, ret |-> ESP_OK, dirty |-> FALSE, syncErases |-> 0,
   eraseFailed |-> FALSE, phys |-> <<>>, reprog |-> FALSE]

\* FlashRing::write
writeNoSizeCheck(s, data, fault) ==
  IF Len(data) = 0 THEN writeStart(s)
  ELSE writeLoop(writeStart(s), data, 0, 1, fault)

write(s, data, fault) ==
  IF Len(data) = 0 THEN writeStart(s)
  ELSE IF Len(data) > s_partitionSize
       THEN [writeStart(s) EXCEPT !.ret = ESP_ERR_INVALID_SIZE]
       ELSE writeLoop(writeStart(s), data, 0, 1, fault)

\* FlashRing::readAt, with the loop that splits at the end of the partition
RECURSIVE readLoop(_, _, _, _)
readLoop(f, readPos, toRead, acc) ==
  IF Len(acc) >= toRead THEN acc
  ELSE
    LET toEndOfPartition == s_partitionSize - readPos
        chunkSize == Min(toRead - Len(acc), toEndOfPartition)
        chunk == [i \in 1 .. chunkSize |-> f[readPos + i - 1]]
    IN readLoop(f, (readPos + chunkSize) % s_partitionSize, toRead,
                acc \o chunk)

readAtNoClamp(h, t, f, offset, len) ==
  LET available == getUsedBytesOf(h, t)
  IN IF offset >= available
     THEN [ret |-> ESP_OK, bytesRead |-> 0, data |-> <<>>]
     ELSE LET toRead == len
              readPos == (t + offset) % s_partitionSize
              d == readLoop(f, readPos, toRead, <<>>)
          IN [ret |-> ESP_OK, bytesRead |-> Len(d), data |-> d]

readAtOf(h, t, f, offset, len) ==
  LET available == getUsedBytesOf(h, t)
  IN IF offset >= available
     THEN [ret |-> ESP_OK, bytesRead |-> 0, data |-> <<>>]
     ELSE LET toRead == Min(len, available - offset)
              readPos == (t + offset) % s_partitionSize
              d == readLoop(f, readPos, toRead, <<>>)
          IN [ret |-> ESP_OK, bytesRead |-> Len(d), data |-> d]

readAt(offset, len) == readAtOf(head, tail, flash, offset, len)

\* FlashRing::consume
consumeTailNoClamp(h, t, len) == (t + len) % s_partitionSize

consumeTailToEnd(h, t, len) ==
  (t + Min(len, s_partitionSize - t)) % s_partitionSize

consumeTail(h, t, len) ==
  LET available == getUsedBytesOf(h, t)
      toConsume == Min(len, available)
  IN (t + toConsume) % s_partitionSize

\* FlashRing::erase on success
\* saveMetadata: saveOk tells whether nvs_set_blob and nvs_commit succeed;
\* old is the blob held by NVS before the call
saveMetadata(old, s, saveOk) == IF saveOk THEN Meta(s) ELSE old

\* FlashRing::erase after the region erase has succeeded
eraseAllKeepWraps(s) ==
  [s EXCEPT !.flash = [o \in Offsets |-> Erased],
            !.ebit = [p \in Pages |-> TRUE],
            !.head = 0, !.tail = 0, !.totalWritten = 0,
            !.cross = 0,
            !.cache = [i \in Slots |-> i - 1],
            !.metaErased = [i \in Slots |-> i - 1]]

eraseAll(s) ==
  [s EXCEPT !.flash = [o \in Offsets |-> Erased],
            !.ebit = [p \in Pages |-> TRUE],
            !.head = 0, !.tail = 0, !.totalWritten = 0, !.wrapCount = 0,
            !.cross = 0,
            !.cache = [i \in Slots |-> i - 1],
            !.metaErased = [i \in Slots |-> i - 1]]

\* one iteration of eraseTask: the first page ahead that is not cached
eraseTaskTargetFromHead(s) ==
  LET currentPage == s.head \div PAGE_SIZE
      ahead == {i \in 0 .. (PRE_ERASE_PAGES - 1) :
                  ~isPageErased(s.cache, (currentPage + i) % s_totalPages)}
  IN IF ahead = {} THEN SIZE_MAX
     ELSE LET i == CHOOSE k \in ahead : \A j \in ahead : k <= j
          IN (currentPage + i) % s_totalPages

eraseTaskTarget(s) ==
  LET currentPage == s.head \div PAGE_SIZE
      ahead == {i \in 1 .. PRE_ERASE_PAGES :
                  ~isPageErased(s.cache, (currentPage + i) % s_totalPages)}
  IN IF ahead = {} THEN SIZE_MAX
     ELSE LET i == CHOOSE k \in ahead : \A j \in ahead : k <= j
          IN (currentPage + i) % s_totalPages

eraseTaskStep(s, eraseOk) ==
  LET targetPage == eraseTaskTarget(s)
  IN IF targetPage = SIZE_MAX \/ ~eraseOk THEN s
     ELSE [s EXCEPT !.flash = ErasePage(s.flash, targetPage),
                    !.ebit = [s.ebit EXCEPT ![targetPage] = TRUE],
                    !.cache = markPageErased(s.cache, targetPage),
                    !.metaErased = markPageErased(s.metaErased, targetPage)]

\* init() with no valid metadata in NVS: fresh cursor, pages 0..K erased
RECURSIVE freshMarks(_, _)
freshMarks(cache, i) ==
  IF i >= PRE_ERASE_PAGES + 1 THEN cache
  ELSE freshMarks(markPageErased(cache, i), i + 1)

freshCache == freshMarks([i \in Slots |-> SIZE_MAX], 0)

freshState(oldFlash) ==
  [head |-> 0, tail |-> 0, totalWritten |-> 0, wrapCount |-> 0,
   metaErased |-> freshCache, cache |-> freshCache,
   flash |-> [o \in Offsets |->
                IF o \div PAGE_SIZE < PRE_ERASE_PAGES + 1 THEN Erased
                ELSE oldFlash[o]],
   ebit |-> [p \in Pages |-> p < PRE_ERASE_PAGES + 1],
   cross |-> 0]

\* ---------------------------------------------------------------- actions
NoRead == [ret |-> "none"]

\* the lengths of the write calls: within a page, across a page boundary,
\* the whole partition and one byte more than that
\* the arguments of the consume and read calls: nothing, one byte, across a
\* page boundary, up to the end of the partition and beyond it
ConsumeLens == {0, 1, PAGE_SIZE + 1, s_partitionSize + 1}
ReadOffsets == {0, 1, PAGE_SIZE + 1, s_partitionSize - 1, s_partitionSize}
ReadLens == {0, 1, PAGE_SIZE + 1, s_partitionSize}

WriteLens == (0 .. (PAGE_SIZE + 1)) \cup {s_partitionSize, s_partitionSize + 1}

\* the lengths of the write calls between restarts: across a page boundary,
\* and the whole partition
BootWriteLens == {PAGE_SIZE + 1, s_partitionSize}

Install(s) ==
  /\ head' = s.head
  /\ tail' = s.tail
  /\ totalWritten' = s.totalWritten
  /\ wrapCount' = s.wrapCount
  /\ metaErased' = s.metaErased
  /\ s_erasedPages' = s.cache
  /\ flash' = s.flash
  /\ erasedBit' = s.ebit
  /\ crossings' = s.cross

\* what the partition held before the first boot: the bytes of an older log
OldFlash == [o \in Offsets |-> o % NumVals]

\* the store holding s, with nothing called yet
InitFields(s) ==
  /\ head = s.head
  /\ tail = s.tail
  /\ totalWritten = s.totalWritten
  /\ wrapCount = s.wrapCount
  /\ metaErased = s.metaErased
  /\ s_erasedPages = s.cache
  /\ flash = s.flash
  /\ erasedBit = s.ebit
  /\ crossings = s.cross
  /\ nvs = Meta(s)
  /\ op = [name |-> "init", ret |-> ESP_OK, valid |-> FALSE,
           failPage |-> SIZE_MAX, saved |-> TRUE, afterFlush |-> FALSE,
           before |-> <<>>]
  /\ rd = NoRead

InitFrom(s) ==
  /\ s_initialized = TRUE
  /\ InitFields(s)

FrInit == InitFrom(freshState(OldFlash))

\* no call has been made since erase() reset the store, only iterations of
\* eraseTask have run
AfterErase ==
  \/ op.name = "erase" /\ op.regionErased
  \/ op.name = "tick" /\ op.afterErase

WriteOf(lens, maxTotal, faults) ==
  \E len \in lens, fault \in faults :
    /\ s_initialized
    /\ totalWritten + len <= maxTotal
    /\ LET r == write(FR, Pattern(totalWritten, len), fault)
       IN /\ Install(r.s)
          /\ op' = [name |-> "write", len |-> len, ret |-> r.ret,
                    dirty |-> r.dirty, syncErases |-> r.syncErases,
                    eraseFailed |-> r.eraseFailed, phys |-> r.phys,
                    afterErase |-> AfterErase, reprog |-> r.reprog]
    /\ rd' = NoRead
    /\ UNCHANGED <<s_initialized, nvs>>

Write(maxTotal, faults) == WriteOf(WriteLens, maxTotal, faults)

ConsumeOf(lens) ==
  \E len \in lens :
    /\ s_initialized
    /\ tail' = consumeTail(head, tail, len)
    /\ op' = [name |-> "consume", len |-> len, ret |-> ESP_OK]
    /\ rd' = NoRead
    /\ UNCHANGED <<s_initialized, head, totalWritten, wrapCount, metaErased,
                   s_erasedPages, flash, nvs, erasedBit, crossings>>

Consume == ConsumeOf(ConsumeLens)

\* FlashRing::erase; eraseOk tells whether the erase of the region succeeds
EraseAll ==
  \E eraseOk \in BOOLEAN, saveOk \in BOOLEAN :
    /\ s_initialized
    /\ IF eraseOk
       THEN /\ Install(eraseAll(FR))
            /\ nvs' = saveMetadata(nvs, eraseAll(FR), saveOk)
            /\ op' = [name |-> "erase",
                      ret |-> IF saveOk THEN ESP_OK ELSE ESP_FAIL,
                      regionErased |-> TRUE, wraps |-> wrapCount,
                      hd |-> head]
       ELSE /\ op' = [name |-> "erase", ret |-> ESP_FAIL,
                      regionErased |-> FALSE, wraps |-> wrapCount,
                      hd |-> head]
            /\ UNCHANGED <<head, tail, totalWritten, wrapCount, metaErased,
                           s_erasedPages, flash, nvs, erasedBit, crossings>>
    /\ rd' = NoRead
    /\ UNCHANGED s_initialized

\* one iteration of the loop of eraseTask; eraseOk tells whether the erase
\* of the page succeeds
EraseTickOf(oks) ==
  \E eraseOk \in oks :
    /\ s_initialized
    /\ Install(eraseTaskStep(FR, eraseOk))
    /\ op' = [name |-> "tick", target |-> eraseTaskTarget(FR),
              ret |-> IF eraseOk THEN ESP_OK ELSE ESP_FAIL,
              afterErase |-> AfterErase]
    /\ UNCHANGED <<s_initialized, nvs, rd>>

EraseTick == EraseTickOf(BOOLEAN)

\* one iteration of the loop of eraseTask before init() has set
\* s_initialized: the task sleeps and starts over
EraseTickEarly ==
  /\ ~s_initialized
  /\ op' = [name |-> "tick", target |-> SIZE_MAX, ret |-> ESP_OK,
            afterErase |-> FALSE]
  /\ UNCHANGED <<s_initialized, head, tail, totalWritten, wrapCount,
                 metaErased, s_erasedPages, flash, nvs, erasedBit, crossings,
                 rd>>

\* the end of init(): the task has been created, s_initialized is set
InitReturn ==
  /\ ~s_initialized
  /\ s_initialized' = TRUE
  /\ op' = [name |-> "init", ret |-> ESP_OK, valid |-> FALSE,
            failPage |-> SIZE_MAX, saved |-> TRUE, afterFlush |-> FALSE,
            before |-> <<>>]
  /\ UNCHANGED <<head, tail, totalWritten, wrapCount, metaErased,
                 s_erasedPages, flash, nvs, erasedBit, crossings, rd>>

\* FlashRing::read and FlashRing::readAt; readOk tells whether
\* esp_partition_read succeeds
Read ==
  \E offset \in ReadOffsets, len \in ReadLens, readOk \in BOOLEAN :
    /\ s_initialized
    /\ LET res == readAt(offset, len)
       IN rd' = IF readOk \/ res.bytesRead = 0
                THEN [ret |-> res.ret, offset |-> offset, len |-> len,
                      bytesRead |-> res.bytesRead, data |-> res.data]
                ELSE [ret |-> ESP_FAIL, offset |-> offset, len |-> len]
    /\ op' = [name |-> "read", ret |-> rd'.ret]
    /\ UNCHANGED <<s_initialized, head, tail, totalWritten, wrapCount,
                   metaErased, s_erasedPages, flash, nvs, erasedBit,
                   crossings>>

\* FlashRing::flushMetadata
FlushMetadata ==
  \E saveOk \in BOOLEAN :
    /\ s_initialized
    /\ nvs' = saveMetadata(nvs, FR, saveOk)
    /\ op' = [name |-> "flushMetadata",
              ret |-> IF saveOk THEN ESP_OK ELSE ESP_FAIL]
    /\ rd' = NoRead
    /\ UNCHANGED <<s_initialized, head, tail, totalWritten, wrapCount,
                   metaErased, s_erasedPages, flash, erasedBit, crossings>>

\* what loadMetadata can find in NVS: the blob saved last, no blob, or a
\* blob with another magic number
NoBlob == [magic |-> "absent"]
BadBlob == [magic |-> "bad"]

\* init() when the blob is missing or invalid: the cursor is reset, pages
\* 0..K are erased and marked; failPage is the page whose erase fails
\* (SIZE_MAX: none), which init() does not look at
initFresh(s, failPage) ==
  [s EXCEPT !.head = 0, !.tail = 0, !.totalWritten = 0, !.wrapCount = 0,
            !.cross = 0,
            !.metaErased = freshCache,
            !.cache = freshCache,
            !.flash = [o \in Offsets |->
                         IF o \div PAGE_SIZE < PRE_ERASE_PAGES + 1
                            /\ o \div PAGE_SIZE # failPage
                         THEN Erased ELSE s.flash[o]],
            !.ebit = [q \in Pages |->
                        IF q < PRE_ERASE_PAGES + 1 /\ q # failPage
                        THEN TRUE ELSE s.ebit[q]]]

\* the erased-page cache that init() takes from a valid blob
loadCacheEmpty(blob) == [i \in Slots |-> SIZE_MAX]

loadCache(blob) == blob.erasedPages

\* init() when the blob is valid; the crossings are counted from the restart
initLoad(s, blob) ==
  [s EXCEPT !.cross = 0,
            !.head = blob.head, !.tail = blob.tail,
            !.totalWritten = blob.totalWritten,
            !.wrapCount = blob.wrapCount,
            !.metaErased = blob.erasedPages,
            !.cache = loadCache(blob)]

\* the in-memory cursor and cache, as compared across a restart
Cursor == [meta |-> Meta(FR), cache |-> s_erasedPages]

\* a restart followed by init(): the memory of the process is lost, the
\* flash and the blob of NVS remain
BootOp(blob, failPage, saveOk) ==
  [name |-> "init", ret |-> ESP_OK, valid |-> blob.magic = MAGIC_NUMBER,
   failPage |-> failPage, saved |-> saveOk,
   afterFlush |-> (op.name = "flushMetadata" /\ op.ret = ESP_OK
                   /\ blob = nvs),
   before |-> Cursor]

Boot ==
  \E blob \in {nvs, NoBlob, BadBlob} :
    /\ s_initialized
    /\ IF blob.magic = MAGIC_NUMBER
       THEN /\ Install(initLoad(FR, blob))
            /\ nvs' = blob
            /\ op' = BootOp(blob, SIZE_MAX, TRUE)
       ELSE \E failPage \in {SIZE_MAX} \cup (0 .. PRE_ERASE_PAGES),
               saveOk \in BOOLEAN :
              /\ Install(initFresh(FR, failPage))
              /\ nvs' = saveMetadata(blob, initFresh(FR, failPage), saveOk)
              /\ op' = BootOp(blob, failPage, saveOk)
    /\ rd' = NoRead
    /\ UNCHANGED s_initialized

\* ------------------------------------------------------------ DataPipeline
\* Time is counted in ticks of the receive timeout of writerTask (50 ms).
writeChunkSize == ChunkPages * PAGE_SIZE

\* the byte of the stream at position p
StreamByte(p) == p % NumVals

CapTicks(t) == Min(t, FlushTimeoutTicks + 1)

\* memmove(writeBuf, writeBuf + n, remaining)
shiftNone(buf, n, remaining) == SubSeq(buf, 1, remaining)

shiftDown(buf, n, remaining) == SubSeq(buf, n + 1, n + remaining)

\* the length of the page completion write
pageCompletionAll(bytesToPageEnd, pending) == pending

pageCompletionLen(bytesToPageEnd, pending) == bytesToPageEnd

\* the timeout test of the flush
timeoutReached(pending, ticks) == pending > 0 /\ ticks >= FlushTimeoutTicks

timeoutNever(pending, ticks) == FALSE

timeoutExpired(pending, ticks) == pending > 0 /\ ticks > FlushTimeoutTicks

\* One FlashRing::write call of writerTask: the first n staged bytes.  st is
\* the task's view during one iteration of its loop; failIdx is the number
\* of the call of this iteration whose physical write fails (0: none).
\* the statistics after a FlashRing::write of n bytes that returned ret
countWriteAsWritten(stats, ret, n) ==
  [stats EXCEPT !.bytesWrittenToFlash = @ + n, !.writeOperations = @ + 1]

countWriteNoDrop(stats, ret, n) ==
  IF ret = ESP_OK
  THEN [stats EXCEPT !.bytesWrittenToFlash = @ + n,
                     !.writeOperations = @ + 1]
  ELSE stats

countWrite(stats, ret, n) ==
  IF ret = ESP_OK
  THEN [stats EXCEPT !.bytesWrittenToFlash = @ + n,
                     !.writeOperations = @ + 1]
  ELSE [stats EXCEPT !.bytesDropped = @ + n]

\* The operators below take the state of the task as an argument and bind
\* it once, so that it is computed once however often it is read.
Only(S) == CHOOSE x \in S : TRUE

recordWrite(stNow, ret, n, kind) ==
  Only({[st EXCEPT
           !.fr = r.s,
           !.nw = st.nw + 1,
           !.stats = countWrite(st.stats, r.ret, n),
           !.issued = Append(st.issued,
                        [kind |-> kind, data |-> SubSeq(st.buf, 1, n),
                         ret |-> r.ret,
                         early |-> st.sf <= FlushTimeoutTicks,
                         sem |-> st.sem,
                         timeout |-> timeoutExpired(st.pend, st.el),
                         off |-> st.fr.head, segs |-> Len(r.phys)]),
           !.buf = IF kind = "flush" THEN <<>>
                   ELSE shiftDown(st.buf, n, st.pend - n),
           !.pend = IF kind = "flush" THEN 0 ELSE st.pend - n]
          : st \in {stNow}, r \in {ret}})

pipeWrite(stNow, n, kind, failIdx) ==
  Only({recordWrite(st,
                    write(st.fr, [i \in 1 .. n |-> StreamByte(st.buf[i])],
                          IF failIdx = st.nw + 1 THEN <<"write", 1>>
                          ELSE NoFault),
                    n, kind)
          : st \in {stNow}})

\* the page completion write
pageCompletion(stNow, failIdx) ==
  Only({IF st.pend >= getBytesToPageEndOf(st.fr.head)
           /\ getBytesToPageEndOf(st.fr.head) > 0
        THEN pipeWrite(st,
                       pageCompletionLen(getBytesToPageEndOf(st.fr.head),
                                         st.pend),
                       "page", failIdx)
        ELSE st
          : st \in {stNow}})

\* the loop of full page writes
RECURSIVE fullPages(_, _)
fullPages(stNow, failIdx) ==
  Only({IF st.pend >= PAGE_SIZE
        THEN fullPages(pipeWrite(st, PAGE_SIZE, "full", failIdx), failIdx)
        ELSE st
          : st \in {stNow}})

\* the flush at the end of the iteration
flushMetadataAfter(written) ==
  Only({[w EXCEPT !.stats = [w.stats EXCEPT !.flushOperations = @ + 1],
                  !.saved = TRUE]
          : w \in {written}})

flushStep(stNow, semTaken, failIdx) ==
  Only({IF (semTaken \/ timeoutExpired(st.pend, st.el)) /\ st.pend > 0
        THEN flushMetadataAfter(pipeWrite(st, st.pend, "flush", failIdx))
        ELSE st
          : st \in {stNow}})

\* one iteration of the loop of writerTask while s_running: k bytes are
\* received (0: the receive timed out), slow tells whether the page writes
\* of this iteration took longer than the flush timeout
receive(st0, k) ==
  IF k > 0
  THEN [st0 EXCEPT !.buf = SubSeq(st0.buf, 1, st0.pend)
                             \o [i \in 1 .. k |-> pulled + i - 1],
                   !.pend = st0.pend + k,
                   !.el = 0]
  ELSE [st0 EXCEPT !.el = CapTicks(st0.el + 1),
                   !.sf = CapTicks(st0.sf + 1)]

pageWritesThenSave(st1, k, failIdx) ==
  IF k > 0
  THEN flushMetadataAfter(fullPages(pageCompletion(st1, failIdx), failIdx))
  ELSE st1

pageWrites(st1, k, failIdx) ==
  IF k > 0 THEN fullPages(pageCompletion(st1, failIdx), failIdx) ELSE st1

writeTime(stNow, slow) ==
  Only({IF slow /\ st2.nw > 0
        THEN [st2 EXCEPT !.el = FlushTimeoutTicks + 1,
                         !.sf = FlushTimeoutTicks + 1]
        ELSE st2
          : st2 \in {stNow}})

writerIteration(st0, k, slow, semTaken, failIdx) ==
  flushStep(writeTime(pageWrites(receive(st0, k), k, failIdx), slow),
            semTaken, failIdx)

\* xRingbufferReceiveUpTo with maxAvail bytes on offer: nothing on a timeout,
\* else all of them, or fewer when the item ends at the wrap of the buffer
ReceiveSizes(maxAvail) == IF maxAvail <= 0 THEN {0} ELSE {1, maxAvail}

PipeInit ==
  \E h \in 0 .. (PAGE_SIZE - 1) :
    /\ InitFrom(write(freshState(OldFlash), Pattern(0, h), NoFault).s)
    /\ head0 = h

\* no write() call and no iteration of eraseTask is in progress
WrIdle == [pc |-> "idle", data |-> <<>>, bytesWritten |-> 0]
EtIdle == [pc |-> "idle", currentPage |-> 0, i |-> 0, targetPage |-> SIZE_MAX]

\* erase() has not been called; data is the data of the write() call that
\* was in progress when erase() was called
ErIdle == [pc |-> "idle", data |-> <<>>]

\* the locals of writerTask and the shadow variables before any step
PipeFields ==
  /\ pendingBytes = 0
  /\ writeBuf = <<>>
  /\ elapsed = 0
  /\ fed = 0
  /\ pulled = 0
  /\ s_flushSem = FALSE
  /\ flushPc = "idle"
  /\ s_stats = [bytesWrittenToFlash |-> 0, bytesDropped |-> 0,
                writeOperations |-> 0, flushOperations |-> 0]
  /\ issued = <<>>
  /\ sinceFeed = 0
  /\ gapped = FALSE
  /\ flushCalls = 0
  /\ metaFlushes = 0
  /\ wr = WrIdle
  /\ et = EtIdle
  /\ confirmedPage = SIZE_MAX
  /\ er = ErIdle

\* the pipeline after init() with autoStart, its task in its loop
PipeStart ==
  /\ PipeFields
  /\ s_running = TRUE
  /\ dp_initialized = TRUE
  /\ taskPc = "loop"

\* the capture side puts a burst of n bytes into the ring buffer
FeedSizes(sizes, maxStream) ==
  \E n \in sizes :
    /\ fed + n <= maxStream
    /\ fed' = fed + n
    /\ sinceFeed' = 0
    /\ gapped' = (gapped \/ (fed > 0 /\ sinceFeed > FlushTimeoutTicks))
    /\ UNCHANGED <<s_running, pendingBytes, writeBuf, elapsed, pulled,
                   s_flushSem, flushPc, s_stats, issued, flushCalls, head0,
                   metaFlushes, dp_initialized, taskPc>>
    /\ UNCHANGED frVars
    /\ UNCHANGED stepVars

FeedUpTo(maxStream) == FeedSizes(1 .. maxStream, maxStream)

Feed == FeedUpTo(MaxStream)

\* the bursts that leave the source with more than the write buffer holds:
\* all, or all but one, of the bytes of the stream
CapBursts == {MaxStreamCap - 1, MaxStreamCap}

\* the task's view at the start of an iteration of its loop
TaskState ==
  [fr |-> FR, buf |-> writeBuf, pend |-> pendingBytes, el |-> elapsed,
   sf |-> sinceFeed, stats |-> s_stats, issued |-> issued, nw |-> 0,
   saved |-> FALSE, sem |-> s_flushSem]

\* xSemaphoreTake(s_flushSem, 0): the binary semaphore after the take
semNotTaken(sem) == sem

semAfterTake(sem) == FALSE

InstallIteration(stEnd) ==
  \E st \in {stEnd} :
    /\ Install(st.fr)
    /\ nvs' = IF st.saved THEN Meta(st.fr) ELSE nvs
    /\ metaFlushes' = metaFlushes + (IF st.saved THEN 1 ELSE 0)
    /\ writeBuf' = st.buf
    /\ pendingBytes' = st.pend
    /\ elapsed' = st.el
    /\ sinceFeed' = st.sf
    /\ s_stats' = st.stats
    /\ issued' = st.issued
    /\ op' = [name |-> "writer", ret |-> ESP_OK, writes |-> st.nw,
              semTaken |-> st.sem, saved |-> st.saved]

\* the test of s_running at the top of the loop of writerTask
canRunAlways(running) == TRUE

canRun(running) == running

\* the size passed to xRingbufferReceiveUpTo, against the bytes on offer
receiveMaxAll(avail, pending) == avail

receiveMax(avail, pending) == Min(avail, writeChunkSize - pending)

WriterIter(failIdxs) ==
  \E k \in ReceiveSizes(receiveMax(fed - pulled, pendingBytes)),
     slow \in BOOLEAN, failIdx \in failIdxs :
    /\ taskPc = "loop"
    /\ canRun(s_running)
    /\ InstallIteration(writerIteration(TaskState, k, slow, s_flushSem,
                                        failIdx))
    /\ pulled' = pulled + k
    /\ s_flushSem' = semAfterTake(s_flushSem)
    /\ UNCHANGED <<s_initialized, rd, s_running, fed, flushPc, gapped,
                   flushCalls, head0, dp_initialized, taskPc>>
    /\ UNCHANGED stepVars

\* the ticks of one vTaskDelay(100 ms) of the stopped worker
IdleTicks == 2

\* one iteration of the loop of writerTask while s_running is false: the
\* task sleeps and starts over; lastDataTime stays, so the time since the
\* last data keeps growing
WriterIdle ==
  /\ taskPc = "loop"
  /\ ~canRun(s_running)
  /\ elapsed' = CapTicks(elapsed + IdleTicks)
  /\ sinceFeed' = CapTicks(sinceFeed + IdleTicks)
  /\ op' = [name |-> "idle", ret |-> ESP_OK]
  /\ UNCHANGED <<s_running, pendingBytes, writeBuf, fed, pulled, s_flushSem,
                 flushPc, s_stats, issued, gapped, flushCalls, head0,
                 metaFlushes, dp_initialized, taskPc>>
  /\ UNCHANGED <<s_initialized, head, tail, totalWritten, wrapCount,
                 metaErased, s_erasedPages, flash, nvs, erasedBit, crossings,
                 rd>>
  /\ UNCHANGED stepVars

\* DataPipeline::start
Start ==
  /\ dp_initialized
  /\ s_running' = TRUE
  /\ op' = [name |-> "start", ret |-> ESP_OK]
  /\ UNCHANGED <<pendingBytes, writeBuf, elapsed, fed, pulled, s_flushSem,
                 flushPc, s_stats, issued, sinceFeed, gapped, flushCalls,
                 head0, metaFlushes, dp_initialized, taskPc>>
  /\ UNCHANGED <<s_initialized, head, tail, totalWritten, wrapCount,
                 metaErased, s_erasedPages, flash, nvs, erasedBit, crossings,
                 rd>>
  /\ UNCHANGED stepVars

\* DataPipeline::stop
Stop ==
  /\ dp_initialized
  /\ s_running' = FALSE
  /\ op' = [name |-> "stop", ret |-> ESP_OK]
  /\ UNCHANGED <<pendingBytes, writeBuf, elapsed, fed, pulled, s_flushSem,
                 flushPc, s_stats, issued, sinceFeed, gapped, flushCalls,
                 head0, metaFlushes, dp_initialized, taskPc>>
  /\ UNCHANGED <<s_initialized, head, tail, totalWritten, wrapCount,
                 metaErased, s_erasedPages, flash, nvs, erasedBit, crossings,
                 rd>>
  /\ UNCHANGED stepVars

\* DataPipeline::init on a pipeline that is not initialized: semOk and
\* taskOk tell whether the semaphore and the task can be created
PipelineInit ==
  \E semOk \in BOOLEAN, taskOk \in BOOLEAN, autoStart \in BOOLEAN :
    /\ ~dp_initialized
    /\ taskPc = "none"
    /\ s_stats' = [bytesWrittenToFlash |-> 0, bytesDropped |-> 0,
                   writeOperations |-> 0, flushOperations |-> 0]
    /\ IF semOk /\ taskOk
       THEN /\ dp_initialized' = TRUE
            /\ taskPc' = "created"
            /\ s_running' = (autoStart \/ s_running)
            /\ op' = [name |-> "pipelineInit", ret |-> ESP_OK]
       ELSE /\ op' = [name |-> "pipelineInit", ret |-> ESP_ERR_NO_MEM]
            /\ UNCHANGED <<dp_initialized, taskPc, s_running>>
    /\ UNCHANGED <<pendingBytes, writeBuf, elapsed, fed, pulled, s_flushSem,
                   flushPc, issued, sinceFeed, gapped, flushCalls, head0,
                   metaFlushes>>
    /\ UNCHANGED <<s_initialized, head, tail, totalWritten, wrapCount,
                   metaErased, s_erasedPages, flash, nvs, erasedBit,
                   crossings, rd>>
    /\ UNCHANGED stepVars

\* writerTask from its entry to its loop: ringOk tells whether the capture
\* side has a ring buffer, mallocOk whether the write buffer is allocated;
\* without either the task deletes itself
TaskStartup ==
  \E ringOk \in BOOLEAN, mallocOk \in BOOLEAN :
    /\ taskPc = "created"
    /\ taskPc' = IF ~ringOk THEN "noring"
                 ELSE IF ~mallocOk THEN "nobuf" ELSE "loop"
    /\ UNCHANGED <<s_running, pendingBytes, writeBuf, elapsed, fed, pulled,
                   s_flushSem, flushPc, s_stats, issued, sinceFeed, gapped,
                   flushCalls, head0, metaFlushes, dp_initialized>>
    /\ UNCHANGED frVars
    /\ UNCHANGED stepVars

\* DataPipeline::flush, up to the delay
FlushCall ==
  /\ dp_initialized
  /\ flushPc = "idle"
  /\ flushCalls < MaxFlushCalls
  /\ flushCalls' = flushCalls + 1
  /\ s_flushSem' = TRUE
  /\ flushPc' = "delay"
  /\ UNCHANGED <<s_running, pendingBytes, writeBuf, elapsed, fed, pulled,
                 s_stats, issued, sinceFeed, gapped, head0, metaFlushes,
                 dp_initialized, taskPc>>
  /\ UNCHANGED frVars
  /\ UNCHANGED stepVars

\* DataPipeline::flush, after the delay
FlushReturn ==
  /\ flushPc = "delay"
  /\ flushPc' = "idle"
  /\ nvs' = Meta(FR)
  /\ metaFlushes' = metaFlushes + 1
  /\ s_stats' = [s_stats EXCEPT !.flushOperations = @ + 1]
  /\ UNCHANGED <<s_running, pendingBytes, writeBuf, elapsed, fed, pulled,
                 s_flushSem, issued, sinceFeed, gapped, flushCalls, head0,
                 dp_initialized, taskPc>>
  /\ UNCHANGED <<s_initialized, head, tail, totalWritten, wrapCount,
                 metaErased, s_erasedPages, flash, erasedBit, crossings, op,
                 rd>>
  /\ UNCHANGED stepVars

\* ------------------------------------------------ write() and eraseTask,
\* step by step.  The two run in different tasks and share only the mutex
\* that isPageErased and markPageErased take, so the steps below may
\* interleave in any order: the cache test, the page erase and the cache
\* insert of each side are separate steps.
pipeUnchanged ==
  UNCHANGED <<s_running, pendingBytes, writeBuf, elapsed, fed, pulled,
              s_flushSem, flushPc, s_stats, issued, sinceFeed, gapped,
              flushCalls, head0, metaFlushes, dp_initialized, taskPc, er>>

\* the lengths of the write calls taken step by step
StepWriteLens == {1, PAGE_SIZE + 1}

\* the page that write() has found or made erased stays confirmed while
\* head is in it
stillConfirmed(page, newHead) ==
  IF newHead \div PAGE_SIZE = page THEN page ELSE SIZE_MAX

\* write(data, len) is called
WrCall ==
  \E len \in StepWriteLens :
    /\ s_initialized
    /\ wr.pc = "idle"
    /\ totalWritten + len <= MaxTotalStep
    /\ wr' = [pc |-> "chunk", data |-> Pattern(totalWritten, len),
              bytesWritten |-> 0]
    /\ op' = [name |-> "writeCall", len |-> len, ret |-> ESP_OK]
    /\ rd' = NoRead
    /\ UNCHANGED <<s_initialized, head, tail, totalWritten, wrapCount,
                   metaErased, s_erasedPages, flash, nvs, erasedBit,
                   crossings, et, confirmedPage>>
    /\ pipeUnchanged

\* one iteration of the loop of write(), up to the cache test of
\* ensurePageErased
WrChunk ==
  /\ wr.pc = "chunk"
  /\ LET chunkSize == chunkSizeOf(head, Len(wr.data) - wr.bytesWritten)
         newHead == (head + chunkSize) % s_partitionSize
         full == getUsedBytes + chunkSize >= s_partitionSize
         currentPage == head \div PAGE_SIZE
         cached == isPageErased(s_erasedPages, currentPage)
     IN /\ tail' = IF full THEN advanceTail(tail, chunkSize) ELSE tail
        /\ wrapCount' = IF full /\ countsAsWrap(wrapCount, newHead, head)
                        THEN wrapCount + 1 ELSE wrapCount
        /\ wr' = [wr EXCEPT !.pc = IF cached THEN "program" ELSE "syncErase"]
        /\ confirmedPage' = IF cached THEN currentPage ELSE confirmedPage
  /\ UNCHANGED <<s_initialized, head, totalWritten, metaErased,
                 s_erasedPages, flash, nvs, erasedBit, crossings, op, rd, et>>
  /\ pipeUnchanged

\* ensurePageErased: the blocking erase of the page of head, whose result
\* write() does not look at
WrSyncErase ==
  \E eraseOk \in BOOLEAN :
    /\ wr.pc = "syncErase"
    /\ IF eraseOk
       THEN /\ flash' = ErasePage(flash, head \div PAGE_SIZE)
            /\ erasedBit' = [erasedBit EXCEPT ![head \div PAGE_SIZE] = TRUE]
            /\ confirmedPage' = head \div PAGE_SIZE
            /\ wr' = [wr EXCEPT !.pc = "syncMark"]
       ELSE /\ wr' = [wr EXCEPT !.pc = "program"]
            /\ UNCHANGED <<flash, erasedBit, confirmedPage>>
    /\ UNCHANGED <<s_initialized, head, tail, totalWritten, wrapCount,
                   metaErased, s_erasedPages, nvs, crossings, op, rd, et>>
    /\ pipeUnchanged

\* ensurePageErased: markPageErased after the blocking erase
WrSyncMark ==
  /\ wr.pc = "syncMark"
  /\ s_erasedPages' = markPageErased(s_erasedPages, head \div PAGE_SIZE)
  /\ metaErased' = markPageErased(metaErased, head \div PAGE_SIZE)
  /\ wr' = [wr EXCEPT !.pc = "program"]
  /\ UNCHANGED <<s_initialized, head, tail, totalWritten, wrapCount, flash,
                 nvs, erasedBit, crossings, op, rd, et, confirmedPage>>
  /\ pipeUnchanged

\* esp_partition_write of the chunk and the update of head
WrProgram ==
  /\ wr.pc = "program"
  /\ LET chunkSize == chunkSizeOf(head, Len(wr.data) - wr.bytesWritten)
         newHead == (head + chunkSize) % s_partitionSize
         done == wr.bytesWritten + chunkSize >= Len(wr.data)
     IN /\ flash' = [o \in Offsets |->
                       IF o >= head /\ o < head + chunkSize
                       THEN Program(flash[o],
                                    wr.data[wr.bytesWritten + 1 + (o - head)])
                       ELSE flash[o]]
        /\ erasedBit' = [erasedBit EXCEPT ![head \div PAGE_SIZE] = FALSE]
        /\ crossings' = crossings + (IF newHead < head THEN 1 ELSE 0)
        /\ head' = newHead
        /\ totalWritten' = totalWritten + chunkSize
        /\ wr' = IF done THEN WrIdle
                 ELSE [wr EXCEPT !.pc = "chunk",
                                 !.bytesWritten = @ + chunkSize]
        /\ confirmedPage' = stillConfirmed(confirmedPage, newHead)
        /\ op' = [name |-> "program", off |-> head, len |-> chunkSize,
                  ret |-> ESP_OK, dirty |-> ~erasedBit[head \div PAGE_SIZE]]
  /\ rd' = NoRead
  /\ UNCHANGED <<s_initialized, tail, wrapCount, metaErased, s_erasedPages,
                 nvs, et>>
  /\ pipeUnchanged

\* eraseTask reads head at the top of an iteration
EtRead ==
  /\ s_initialized
  /\ et.pc = "idle"
  /\ et' = [pc |-> "check", currentPage |-> head \div PAGE_SIZE, i |-> 1,
            targetPage |-> SIZE_MAX]
  /\ UNCHANGED <<frVars, wr, confirmedPage>>
  /\ pipeUnchanged

\* eraseTask tests the cache for page currentPage + i
EtCheck ==
  /\ et.pc = "check"
  /\ LET targetPage == (et.currentPage + et.i) % s_totalPages
     IN et' = IF ~isPageErased(s_erasedPages, targetPage)
              THEN [et EXCEPT !.pc = "erase", !.targetPage = targetPage]
              ELSE IF et.i < PRE_ERASE_PAGES
                   THEN [et EXCEPT !.i = @ + 1]
                   ELSE EtIdle
  /\ UNCHANGED <<frVars, wr, confirmedPage>>
  /\ pipeUnchanged

\* eraseTask erases the page it found missing from the cache
EtErase ==
  \E eraseOk \in BOOLEAN :
    /\ et.pc = "erase"
    /\ IF eraseOk
       THEN /\ flash' = ErasePage(flash, et.targetPage)
            /\ erasedBit' = [erasedBit EXCEPT ![et.targetPage] = TRUE]
            /\ et' = [et EXCEPT !.pc = "mark"]
       ELSE /\ et' = EtIdle
            /\ UNCHANGED <<flash, erasedBit>>
    /\ op' = [name |-> "etErase", target |-> et.targetPage,
              ret |-> IF eraseOk THEN ESP_OK ELSE ESP_FAIL]
    /\ UNCHANGED <<s_initialized, head, tail, totalWritten, wrapCount,
                   metaErased, s_erasedPages, nvs, crossings, rd, wr,
                   confirmedPage>>
    /\ pipeUnchanged

\* eraseTask inserts the erased page into the cache
EtMark ==
  /\ et.pc = "mark"
  /\ s_erasedPages' = markPageErased(s_erasedPages, et.targetPage)
  /\ metaErased' = markPageErased(metaErased, et.targetPage)
  /\ et' = EtIdle
  /\ UNCHANGED <<s_initialized, head, tail, totalWritten, wrapCount, flash,
                 nvs, erasedBit, crossings, op, rd, wr, confirmedPage>>
  /\ pipeUnchanged

NextStep ==
  \/ WrCall
  \/ WrChunk
  \/ WrSyncErase
  \/ WrSyncMark
  \/ WrProgram
  \/ EtRead
  \/ EtCheck
  \/ EtErase
  \/ EtMark

Next ==
  \/ Write(MaxTotal, {NoFault}) /\ UNCHANGED <<pipeVars, stepVars>>
  \/ Consume /\ UNCHANGED <<pipeVars, stepVars>>
  \/ EraseAll /\ UNCHANGED <<pipeVars, stepVars>>
  \/ EraseTick /\ UNCHANGED <<pipeVars, stepVars>>

NextRd ==
  \/ Write(MaxTotalRd, {NoFault}) /\ UNCHANGED <<pipeVars, stepVars>>
  \/ Consume /\ UNCHANGED <<pipeVars, stepVars>>
  \/ EraseAll /\ UNCHANGED <<pipeVars, stepVars>>
  \/ EraseTick /\ UNCHANGED <<pipeVars, stepVars>>
  \/ Read /\ UNCHANGED <<pipeVars, stepVars>>

NextWr ==
  \/ Write(MaxTotal, {NoFault}) /\ UNCHANGED <<pipeVars, stepVars>>
  \/ EraseAll /\ UNCHANGED <<pipeVars, stepVars>>
  \/ EraseTick /\ UNCHANGED <<pipeVars, stepVars>>

NextTick ==
  \/ InitReturn /\ UNCHANGED <<pipeVars, stepVars>>
  \/ EraseTickEarly /\ UNCHANGED <<pipeVars, stepVars>>
  \/ EraseTick /\ UNCHANGED <<pipeVars, stepVars>>
  \/ Write(MaxTotalRd, {NoFault}) /\ UNCHANGED <<pipeVars, stepVars>>
  \/ Consume /\ UNCHANGED <<pipeVars, stepVars>>
  \/ EraseAll /\ UNCHANGED <<pipeVars, stepVars>>

\* writes, and iterations of eraseTask whose erases succeed
TickOk == EraseTickOf({TRUE}) /\ UNCHANGED <<pipeVars, stepVars>>

NextQuiet ==
  \/ Write(MaxTotalRd, {NoFault}) /\ UNCHANGED <<pipeVars, stepVars>>
  \/ TickOk

NextFault ==
  \/ Write(MaxTotalFault, Faults) /\ UNCHANGED <<pipeVars, stepVars>>
  \/ Consume /\ UNCHANGED <<pipeVars, stepVars>>
  \/ EraseAll /\ UNCHANGED <<pipeVars, stepVars>>
  \/ EraseTick /\ UNCHANGED <<pipeVars, stepVars>>

NextBoot ==
  \/ WriteOf(BootWriteLens, MaxTotalBoot, {NoFault}) /\ UNCHANGED <<pipeVars, stepVars>>
  \/ Consume /\ UNCHANGED <<pipeVars, stepVars>>
  \/ EraseTick /\ UNCHANGED <<pipeVars, stepVars>>
  \/ FlushMetadata /\ UNCHANGED <<pipeVars, stepVars>>
  \/ Boot /\ UNCHANGED <<pipeVars, stepVars>>

NextPipe ==
  \/ Feed
  \/ WriterIter({0})
  \/ FlushCall
  \/ FlushReturn

NextRun ==
  \/ FeedUpTo(MaxStreamRun)
  \/ WriterIter({0})
  \/ WriterIdle
  \/ Start
  \/ Stop
  \/ FlushCall
  \/ FlushReturn

NextPipeInit ==
  \/ PipelineInit
  \/ TaskStartup
  \/ FeedUpTo(MaxStreamRun)
  \/ WriterIter({0})
  \/ WriterIdle
  \/ Start
  \/ Stop

NextPipeFault ==
  \/ Feed
  \/ WriterIter(0 .. MaxFailIdx)

\* the pipeline on one burst of a page and a byte, with consume(), erase()
\* and flushMetadata() called from other tasks
NextSave ==
  \/ FeedSizes({PAGE_SIZE + 1}, MaxStreamLive)
  \/ WriterIter({0})
  \/ FlushCall
  \/ FlushReturn
  \/ ConsumeOf({PAGE_SIZE + 1}) /\ UNCHANGED <<pipeVars, stepVars>>
  \/ EraseAll /\ UNCHANGED <<pipeVars, stepVars>>
  \/ FlushMetadata /\ UNCHANGED <<pipeVars, stepVars>>

\* a shorter stream, with writes that may fail
NextPipeFaultRun ==
  \/ FeedUpTo(MaxStreamLive)
  \/ WriterIter(0 .. MaxFailIdx)

\* the source holds more bytes than the write buffer has room for
NextPipeCap ==
  \/ FeedSizes(CapBursts, MaxStreamCap)
  \/ WriterIter(0 .. MaxFailIdx)

vars == <<frVars, pipeVars, stepVars>>

Init == FrInit /\ PipeStart /\ head0 = 0

InitPipe == PipeInit /\ PipeStart

Spec == Init /\ [][Next]_vars

SpecRd == Init /\ [][NextRd]_vars

\* init() has created eraseTask and is about to set s_initialized
InitTick ==
  /\ s_initialized = FALSE
  /\ InitFields(freshState(OldFlash))
  /\ PipeStart
  /\ head0 = 0

SpecTick == InitTick /\ [][NextTick]_vars

\* the loop of eraseTask runs for as long as the store is initialized, with
\* a delay of 50 ms between iterations: an iteration is never postponed for
\* good
SpecQuiet == Init /\ [][NextQuiet]_vars /\ WF_vars(TickOk)

SpecStep == Init /\ [][NextStep]_vars

\* writes with no consume in between
SpecWr == Init /\ [][NextWr]_vars

SpecFault == Init /\ [][NextFault]_vars

SpecBoot == Init /\ [][NextBoot]_vars

SpecPipe == InitPipe /\ [][NextPipe]_vars

\* the loop of writerTask runs forever at a priority just below the capture
\* task, with bounded waits: its iterations are never postponed for good
SpecPipeLive ==
  InitPipe /\ [][NextPipe]_vars /\ WF_vars(WriterIter({0}))

\* the pipeline before DataPipeline::init, the store initialized
InitPipeCold ==
  /\ PipeInit
  /\ PipeFields
  /\ s_running = FALSE
  /\ dp_initialized = FALSE
  /\ taskPc = "none"

SpecPipeInit == InitPipeCold /\ [][NextPipeInit]_vars

SpecRun == InitPipe /\ [][NextRun]_vars

SpecPipeFault == InitPipe /\ [][NextPipeFault]_vars

SpecPipeCap == InitPipe /\ [][NextPipeCap]_vars

SpecSave == InitPipe /\ [][NextSave]_vars

\* the same loop, never postponed for good, with writes that may fail
SpecPipeFaultLive ==
  InitPipe /\ [][NextPipeFaultRun]_vars
    /\ WF_vars(WriterIter(0 .. MaxFailIdx))

\* ------------------------------------------- the mutex of the erased-page
\* cache.  markPageErased takes s_eraseMutex, stores the page into a slot of
\* s_erasedPages, stores it into the same slot of s_meta.erasedPages and
\* gives the mutex back; the two stores are separate steps below, and the
\* mutex is held in between.

\* an empty slot taken before a slot that holds the page
markSlotEmptyFirst(cache, pageNum) ==
  IF \E i \in Slots : cache[i] = SIZE_MAX
  THEN CHOOSE k \in Slots :
         /\ cache[k] = SIZE_MAX
         /\ \A j \in Slots : cache[j] = SIZE_MAX => k <= j
  ELSE IF \E i \in Slots : cache[i] = pageNum
       THEN CHOOSE k \in Slots :
              /\ cache[k] = pageNum
              /\ \A j \in Slots : cache[j] = pageNum => k <= j
       ELSE 1

\* the slot that markPageErased stores into: the first one that is empty or
\* holds the page already, else slot 0 of the code
markSlot(cache, pageNum) ==
  IF \E i \in Slots : cache[i] = SIZE_MAX \/ cache[i] = pageNum
  THEN CHOOSE k \in Slots :
         /\ (cache[k] = SIZE_MAX \/ cache[k] = pageNum)
         /\ \A j \in Slots :
              (cache[j] = SIZE_MAX \/ cache[j] = pageNum) => k <= j
  ELSE 1

\* eraseTask is inside markPageErased, between the take and the give
eraseMutexHeld == et.pc = "markMeta"

\* markPageErased of eraseTask: the take and the store into s_erasedPages
EtMarkMirror ==
  /\ et.pc = "mark"
  /\ \E i \in {markSlot(s_erasedPages, et.targetPage)} :
       /\ s_erasedPages' = [s_erasedPages EXCEPT ![i] = et.targetPage]
       /\ et' = [pc |-> "markMeta", currentPage |-> et.currentPage,
                 i |-> et.i, targetPage |-> et.targetPage, slot |-> i]
  /\ UNCHANGED <<s_initialized, head, tail, totalWritten, wrapCount, flash,
                 metaErased, nvs, erasedBit, crossings, op, rd, wr,
                 confirmedPage>>
  /\ pipeUnchanged

\* markPageErased of eraseTask: the store into s_meta.erasedPages and the give
EtMarkMeta ==
  /\ et.pc = "markMeta"
  /\ metaErased' = [metaErased EXCEPT ![et.slot] = et.targetPage]
  /\ et' = EtIdle
  /\ UNCHANGED <<s_initialized, head, tail, totalWritten, wrapCount, flash,
                 s_erasedPages, nvs, erasedBit, crossings, op, rd, wr,
                 confirmedPage>>
  /\ pipeUnchanged

\* write() and eraseTask step by step, with flushMetadata() called from
\* another task; isPageErased and markPageErased of write() wait for the
\* mutex, saveMetadata does not take it
NextLock ==
  \/ WrCall
  \/ ~eraseMutexHeld /\ WrChunk
  \/ WrSyncErase
  \/ ~eraseMutexHeld /\ WrSyncMark
  \/ WrProgram
  \/ EtRead
  \/ EtCheck
  \/ EtErase
  \/ EtMarkMirror
  \/ EtMarkMeta
  \/ FlushMetadata /\ UNCHANGED <<pipeVars, stepVars>>

SpecLock == Init /\ [][NextLock]_vars


\* ------------------------------------------------ erase() against write().
\* The format command calls erase() from the command task while writerTask
\* is inside write(); neither call takes a lock around s_meta, so the steps
\* below interleave in any order.  write() keeps chunkSize and newHead in
\* locals; where it reads s_meta.head again later in the iteration, the
\* value is the one it read first or the one of that moment, as the build
\* decides.
stepsUnchanged ==
  UNCHANGED <<s_running, pendingBytes, writeBuf, elapsed, fed, pulled,
              s_flushSem, flushPc, s_stats, issued, sinceFeed, gapped,
              flushCalls, head0, metaFlushes, dp_initialized, taskPc, et,
              confirmedPage, s_initialized, op, rd>>

\* the head that a later read of s_meta.head in the same iteration gives
HeadReads == {wr.headSeen, head}

\* write(): the top of an iteration, up to the update of tail and wrapCount
CwChunk ==
  /\ wr.pc = "chunk"
  /\ LET chunkSize == chunkSizeOf(head, Len(wr.data) - wr.bytesWritten)
         newHead == (head + chunkSize) % s_partitionSize
         full == getUsedBytes + chunkSize >= s_partitionSize
     IN /\ tail' = IF full THEN advanceTail(tail, chunkSize) ELSE tail
        /\ wrapCount' = IF full /\ countsAsWrap(wrapCount, newHead, head)
                        THEN wrapCount + 1 ELSE wrapCount
        /\ wr' = [pc |-> "ensure", data |-> wr.data,
                  bytesWritten |-> wr.bytesWritten, headSeen |-> head,
                  chunkSize |-> chunkSize, newHead |-> newHead,
                  currentPage |-> 0]
  /\ UNCHANGED <<head, totalWritten, metaErased, s_erasedPages, flash, nvs,
                 erasedBit, crossings, er>>
  /\ stepsUnchanged

\* write(): currentPage is taken from head and tested against the cache
CwEnsure ==
  /\ wr.pc = "ensure"
  /\ \E h \in HeadReads :
    /\ wr' = [wr EXCEPT !.currentPage = h \div PAGE_SIZE,
                        !.pc = IF isPageErased(s_erasedPages, h \div PAGE_SIZE)
                               THEN "program" ELSE "syncErase"]
    /\ UNCHANGED <<head, tail, totalWritten, wrapCount, metaErased,
                   s_erasedPages, flash, nvs, erasedBit, crossings, er>>
    /\ stepsUnchanged

\* ensurePageErased: the blocking erase of currentPage
CwSyncErase ==
  /\ wr.pc = "syncErase"
  /\ flash' = ErasePage(flash, wr.currentPage)
  /\ erasedBit' = [erasedBit EXCEPT ![wr.currentPage] = TRUE]
  /\ wr' = [wr EXCEPT !.pc = "syncMark"]
  /\ UNCHANGED <<head, tail, totalWritten, wrapCount, metaErased,
                 s_erasedPages, nvs, crossings, er>>
  /\ stepsUnchanged

\* ensurePageErased: markPageErased(currentPage)
CwSyncMark ==
  /\ wr.pc = "syncMark"
  /\ s_erasedPages' = markPageErased(s_erasedPages, wr.currentPage)
  /\ metaErased' = markPageErased(metaErased, wr.currentPage)
  /\ wr' = [wr EXCEPT !.pc = "program"]
  /\ UNCHANGED <<head, tail, totalWritten, wrapCount, flash, nvs, erasedBit,
                 crossings, er>>
  /\ stepsUnchanged

\* write(): esp_partition_write of the chunk at head, then head, totalWritten
\* and bytesWritten
CwProgram ==
  /\ wr.pc = "program"
  /\ \E h \in HeadReads :
    /\ flash' = [o \in Offsets |->
                   IF o >= h /\ o < h + wr.chunkSize
                   THEN Program(flash[o],
                                wr.data[wr.bytesWritten + 1 + (o - h)])
                   ELSE flash[o]]
    /\ erasedBit' = [erasedBit EXCEPT ![h \div PAGE_SIZE] = FALSE]
    /\ crossings' = crossings + (IF wr.newHead < h THEN 1 ELSE 0)
    /\ head' = wr.newHead
    /\ totalWritten' = totalWritten + wr.chunkSize
    /\ wr' = IF wr.bytesWritten + wr.chunkSize >= Len(wr.data) THEN WrIdle
             ELSE [pc |-> "chunk", data |-> wr.data,
                   bytesWritten |-> wr.bytesWritten + wr.chunkSize]
    /\ UNCHANGED <<tail, wrapCount, metaErased, s_erasedPages, nvs, er>>
    /\ stepsUnchanged

\* erase() is called, possibly while a write() call is in progress
ErCall ==
  /\ s_initialized
  /\ er.pc = "idle"
  /\ er' = [pc |-> "region",
            data |-> IF wr.pc = "idle" THEN <<>> ELSE wr.data]
  /\ UNCHANGED <<head, tail, totalWritten, wrapCount, metaErased,
                 s_erasedPages, flash, nvs, erasedBit, crossings, wr>>
  /\ stepsUnchanged

\* erase(): esp_partition_erase_range of the whole partition
ErRegion ==
  \E eraseOk \in BOOLEAN :
    /\ er.pc = "region"
    /\ IF eraseOk
       THEN /\ flash' = [o \in Offsets |-> Erased]
            /\ erasedBit' = [p \in Pages |-> TRUE]
            /\ er' = [er EXCEPT !.pc = "head"]
       ELSE /\ er' = [er EXCEPT !.pc = "failed"]
            /\ UNCHANGED <<flash, erasedBit>>
    /\ UNCHANGED <<head, tail, totalWritten, wrapCount, metaErased,
                   s_erasedPages, nvs, crossings, wr>>
    /\ stepsUnchanged

\* erase(): s_meta.head = 0
ErHead ==
  /\ er.pc = "head"
  /\ head' = 0
  /\ er' = [er EXCEPT !.pc = "tail"]
  /\ UNCHANGED <<tail, totalWritten, wrapCount, metaErased, s_erasedPages,
                 flash, nvs, erasedBit, crossings, wr>>
  /\ stepsUnchanged

\* erase(): s_meta.tail = 0
ErTail ==
  /\ er.pc = "tail"
  /\ tail' = 0
  /\ er' = [er EXCEPT !.pc = "total"]
  /\ UNCHANGED <<head, totalWritten, wrapCount, metaErased, s_erasedPages,
                 flash, nvs, erasedBit, crossings, wr>>
  /\ stepsUnchanged

\* erase(): s_meta.totalWritten = 0
ErTotal ==
  /\ er.pc = "total"
  /\ totalWritten' = 0
  /\ er' = [er EXCEPT !.pc = "wraps"]
  /\ UNCHANGED <<head, tail, wrapCount, metaErased, s_erasedPages, flash,
                 nvs, erasedBit, crossings, wr>>
  /\ stepsUnchanged

\* erase(): s_meta.wrapCount = 0
ErWraps ==
  /\ er.pc = "wraps"
  /\ wrapCount' = 0
  /\ crossings' = 0
  /\ er' = [er EXCEPT !.pc = "cache"]
  /\ UNCHANGED <<head, tail, totalWritten, metaErased, s_erasedPages, flash,
                 nvs, erasedBit, wr>>
  /\ stepsUnchanged

\* erase(): the first pages are marked erased, under the mutex
ErCache ==
  /\ er.pc = "cache"
  /\ s_erasedPages' = [i \in Slots |-> i - 1]
  /\ metaErased' = [i \in Slots |-> i - 1]
  /\ er' = [er EXCEPT !.pc = "save"]
  /\ UNCHANGED <<head, tail, totalWritten, wrapCount, flash, nvs, erasedBit,
                 crossings, wr>>
  /\ stepsUnchanged

\* erase(): saveMetadata and the return
ErSave ==
  \E saveOk \in BOOLEAN :
    /\ er.pc = "save"
    /\ nvs' = saveMetadata(nvs, FR, saveOk)
    /\ er' = [er EXCEPT !.pc = "done"]
    /\ UNCHANGED <<head, tail, totalWritten, wrapCount, metaErased,
                   s_erasedPages, flash, erasedBit, crossings, wr>>
    /\ stepsUnchanged

\* write() calls, and one erase() call that may start inside one of them
NextConc ==
  \/ er.pc = "idle" /\ WrCall
  \/ CwChunk
  \/ CwEnsure
  \/ CwSyncErase
  \/ CwSyncMark
  \/ CwProgram
  \/ ErCall
  \/ ErRegion
  \/ ErHead
  \/ ErTail
  \/ ErTotal
  \/ ErWraps
  \/ ErCache
  \/ ErSave

SpecConc == Init /\ [][NextConc]_vars

\* ------------------------------------------------ markPageErased on its
\* own: the function applied to any content of the two arrays.

\* the store with any content in s_erasedPages and s_meta.erasedPages
InitCache ==
  \E mirror \in [Slots -> Pages \cup {SIZE_MAX}],
     copy \in [Slots -> Pages \cup {SIZE_MAX}] :
    /\ InitFrom([freshState(OldFlash) EXCEPT !.cache = mirror,
                                             !.metaErased = copy])
    /\ PipeStart
    /\ head0 = 0

\* markPageErased(pageNum): the slot is looked for in s_erasedPages, and the
\* page is stored at that index into s_erasedPages and s_meta.erasedPages
MarkPage ==
  \E pageNum \in Pages :
    \E i \in {markSlot(s_erasedPages, pageNum)} :
      /\ s_erasedPages' = [s_erasedPages EXCEPT ![i] = pageNum]
      /\ metaErased' = [metaErased EXCEPT ![i] = pageNum]
      /\ op' = [name |-> "mark", page |-> pageNum, before |-> s_erasedPages,
                metaBefore |-> metaErased]
      /\ UNCHANGED <<s_initialized, head, tail, totalWritten, wrapCount,
                     flash, nvs, erasedBit, crossings, rd>>
      /\ UNCHANGED <<pipeVars, stepVars>>

SpecCache == InitCache /\ [][MarkPage]_vars

\* ------------------------------------------------------------ properties

\* C1: every physical write issued by write() finds the shadow erased bit of
\* its target page set (the page was erased since it was last written).
C1_EraseBeforeWrite == op.name = "write" => ~op.dirty

\* C2: head and tail lie in [0, regionSize), usedBytes is at most
\* regionSize - 1 and freeBytes is never negative, after every call.
C2_CursorInRange ==
  /\ head \in 0 .. (s_partitionSize - 1)
  /\ tail \in 0 .. (s_partitionSize - 1)
  /\ getUsedBytes <= s_partitionSize - 1
  /\ getFreeBytes >= 0

C2_Witness ==
  /\ op.name = "write"
  /\ op.ret = ESP_OK
  /\ totalWritten > s_partitionSize
  /\ getUsedBytes = s_partitionSize - 1

\* C3: wrapCount equals the number of physical sub-writes that took head from
\* a higher to a lower value since the last fresh init or erase.
C3_WrapCountCountsCrossings == wrapCount = crossings

\* the bytes of the first n write calls of writerTask, in issue order
RECURSIVE IssuedBytes(_)
IssuedBytes(n) ==
  IF n = 0 THEN <<>> ELSE IssuedBytes(n - 1) \o issued[n].data

AllWritesOk(n) == \A j \in 1 .. n : issued[j].ret = ESP_OK

\* C4: when every write succeeds, the bytes passed to FlashRing::write, in
\* issue order, followed by the staged bytes, are the bytes pulled from the
\* source, in order.
C4_StreamPreserved ==
  AllWritesOk(Len(issued)) =>
    IssuedBytes(Len(issued)) \o SubSeq(writeBuf, 1, pendingBytes)
      = [i \in 1 .. pulled |-> i - 1]

C4_Witness ==
  /\ head0 > 0
  /\ Len(issued) >= 3
  /\ issued[1].kind = "page"
  /\ issued[2].kind = "full"
  /\ issued[3].kind = "full"
  /\ pendingBytes > 0

\* n bytes were fed without an idle gap over the timeout, and flush() was
\* not called
FedOnce(n) == fed = n /\ ~gapped /\ flushCalls = 0

IdleFlushOf(n) ==
  /\ \A i \in 1 .. Len(issued) : ~issued[i].early
  /\ (pulled = fed /\ sinceFeed > FlushTimeoutTicks)
       => /\ Len(issued) = 1
          /\ Len(issued[1].data) = n
          /\ metaFlushes = 1

C7_ConsumeThenRead ==
  [][(op'.name = "consume" /\ op'.len <= getUsedBytes)
       => \A len \in 0 .. (s_partitionSize + 1) :
            readAtOf(head', tail', flash', 0, len)
              = readAtOf(head, tail, flash, op'.len, len)]_vars

C7_Witness ==
  /\ op.name = "consume"
  /\ op.len = PAGE_SIZE + 1
  /\ getUsedBytes > 1
  /\ 0 < head
  /\ head < tail

\* C8: a read repeated on the same range, with only pre-erase task steps in
\* between, returns the same count and bytes, and a read changes neither the
\* cursor nor the erased page cache nor the flash.
C8_RepeatedRead ==
  [][/\ (/\ rd # NoRead
         /\ op'.name = "read"
         /\ rd.ret = ESP_OK
         /\ rd'.ret = ESP_OK
         /\ rd'.offset = rd.offset
         /\ rd'.len = rd.len)
        => (rd'.bytesRead = rd.bytesRead /\ rd'.data = rd.data)
     /\ op'.name = "read"
        => UNCHANGED <<head, tail, wrapCount, totalWritten, s_erasedPages,
                       metaErased, flash>>]_vars

\* C9: readAt(offset, len) returns min(len, usedBytes - offset) bytes when
\* offset < usedBytes and no bytes, with success, when offset >= usedBytes;
\* byte i is the flash byte at (tail + offset + i) mod regionSize.
C9_ReadAtContents ==
  op.name = "read" =>
    /\ rd.offset >= getUsedBytes => (rd.ret = ESP_OK /\ rd.bytesRead = 0)
    /\ rd.ret = ESP_OK =>
         /\ rd.offset < getUsedBytes
              => rd.bytesRead = Min(rd.len, getUsedBytes - rd.offset)
         /\ Len(rd.data) = rd.bytesRead
         /\ \A i \in 1 .. rd.bytesRead :
              rd.data[i] = flash[(tail + rd.offset + i - 1) % s_partitionSize]

C9_Witness ==
  /\ op.name = "read"
  /\ rd.ret = ESP_OK
  /\ rd.bytesRead > 1
  /\ rd.bytesRead < rd.len
  /\ tail + rd.offset < s_partitionSize
  /\ tail + rd.offset + rd.bytesRead > s_partitionSize

\* C10: consume(len) succeeds, advances tail by min(len, usedBytes) modulo
\* regionSize, reduces usedBytes by that amount and changes nothing else.
C10_ConsumeFrame ==
  [][op'.name = "consume" =>
       LET n == Min(op'.len, getUsedBytes)
       IN /\ op'.ret = ESP_OK
          /\ tail' = (tail + n) % s_partitionSize
          /\ getUsedBytesOf(head', tail') = getUsedBytes - n
          /\ UNCHANGED <<head, wrapCount, totalWritten, s_erasedPages,
                         metaErased, flash>>]_vars

C10_Witness ==
  /\ op.name = "consume"
  /\ op.len > s_partitionSize
  /\ tail = head
  /\ head > 0
  /\ wrapCount > 0

\* C11: a block-device error inside write(), a failed synchronous page erase
\* as well as a failed physical write, is returned to the caller: a write
\* call during which a device call failed does not return ESP_OK.
C11_DeviceErrorsReturned ==
  (op.name = "write" /\ op.eraseFailed) => op.ret # ESP_OK

\* C12: write(data, len) with len greater than the region size returns
\* InvalidSize and performs no erase, no physical write and no change to head,
\* tail, wrapCount, totalWritten or the erased-page cache.
C12_OversizeWriteRejected ==
  [][(op'.name = "write" /\ op'.len > s_partitionSize)
       => /\ op'.ret = ESP_ERR_INVALID_SIZE
          /\ op'.syncErases = 0
          /\ op'.phys = <<>>
          /\ UNCHANGED <<head, tail, wrapCount, totalWritten, s_erasedPages,
                         metaErased, flash, erasedBit>>]_vars

C12_Witness ==
  /\ op.name = "write"
  /\ op.len > s_partitionSize
  /\ op.ret = ESP_ERR_INVALID_SIZE
  /\ head > 0
  /\ getUsedBytes > 0

\* what erase() promises: every page erased, the cursor empty with no wraps,
\* and the cursor held by the MetadataStore equal to the one in memory
EraseDone ==
  /\ \A o \in Offsets : flash[o] = Erased
  /\ head = 0
  /\ tail = 0
  /\ wrapCount = 0
  /\ getUsedBytes = 0
  /\ nvs = Meta(FR)

\* C13 as stated: when the region erase succeeds, erase() leaves every page
\* erased, head = tail = 0, wrapCount = 0, usedBytes = 0 and the persisted
\* cursor equal to the in-memory cursor.
C13_EraseResetsAndPersists ==
  (op.name = "erase" /\ op.regionErased) => EraseDone

\* C13 amended: the same when erase() returns success, that is when the
\* region erase and the save of the cursor both succeed.
C13_EraseResetsWhenOk ==
  (op.name = "erase" /\ op.ret = ESP_OK) => EraseDone

C13_Witness ==
  /\ op.name = "erase"
  /\ op.ret = ESP_OK
  /\ op.wraps > 0
  /\ op.hd > 0

\* C14: after erase() the next write of 1 byte succeeds without the
\* synchronous erase fallback, page 0 being found in the erased-page cache,
\* for any number of iterations of the pre-erase task in between.
C14_NoSyncEraseAfterErase ==
  (op.name = "write" /\ op.afterErase /\ op.len = 1)
    => (op.ret = ESP_OK /\ op.syncErases = 0)

\* the number of bytes programmed by the segments of one write() call
RECURSIVE PhysBytes(_)
PhysBytes(phys) ==
  IF phys = <<>> THEN 0 ELSE Head(phys).len + PhysBytes(Tail(phys))

\* C15: totalWritten only increases: every operation leaves it unchanged or
\* adds the number of bytes written; it is never reset or decreased.
C15_TotalWrittenOnlyIncreases ==
  [][IF op'.name = "write"
     THEN totalWritten' = totalWritten + PhysBytes(op'.phys)
     ELSE totalWritten' = totalWritten]_vars

\* C16: init() with a persisted cursor that is absent, unreadable or of a
\* wrong magic number returns success with head = tail = 0, totalWritten = 0,
\* wrapCount = 0, pages 0..K physically erased and the fresh cursor persisted.
C16_FreshInitErasesAndPersists ==
  (op.name = "init" /\ ~op.valid)
    => /\ op.ret = ESP_OK
       /\ head = 0
       /\ tail = 0
       /\ totalWritten = 0
       /\ wrapCount = 0
       /\ \A o \in Offsets :
            o \div PAGE_SIZE < PRE_ERASE_PAGES + 1 => flash[o] = Erased
       /\ nvs = Meta(FR)

\* C17: persistence round trip. A flushMetadata() that succeeds stores the
\* in-memory cursor; a restart and init() that follow it restore head, tail,
\* totalWritten, wrapCount and the erased-page cache as they were at the
\* flush; and whenever the magic number of the blob is valid, init() returns
\* with the cursor and the cache of the blob.
C17_PersistenceRoundTrip ==
  /\ (op.name = "flushMetadata" /\ op.ret = ESP_OK) => nvs = Meta(FR)
  /\ (op.name = "init" /\ op.afterFlush)
       => (op.valid /\ op.ret = ESP_OK /\ Cursor = op.before)
  /\ (op.name = "init" /\ op.valid)
       => (Meta(FR) = nvs /\ s_erasedPages = nvs.erasedPages)

C17_Witness ==
  /\ op.name = "init"
  /\ op.afterFlush
  /\ wrapCount > 0
  /\ head > 0
  /\ tail > 0
  /\ s_erasedPages # freshCache

\* the flush writes issued in an iteration that took the flush semaphore
SemFlushes ==
  {j \in 1 .. Len(issued) : issued[j].kind = "flush" /\ issued[j].sem}

\* the number of flush writes issued so far
FlushCount ==
  Cardinality({j \in 1 .. Len(issued) : issued[j].kind = "flush"})

RECURSIVE IssuedLen(_, _)
IssuedLen(n, ret) ==
  IF n = 0 THEN 0
  ELSE IssuedLen(n - 1, ret)
         + (IF issued[n].ret = ret THEN Len(issued[n].data) ELSE 0)

\* C19: every FlashRing write issued by the worker updates the statistics
\* exactly once: a successful write of L bytes adds L to bytesWrittenToFlash
\* and 1 to writeOperations, a failed one adds L to bytesDropped; a failed
\* write is never retried and its bytes leave the staging buffer, so every
\* byte pulled is passed to FlashRing::write at most once, in order.
C19_StatsCountEveryWrite ==
  /\ s_stats.bytesWrittenToFlash = IssuedLen(Len(issued), ESP_OK)
  /\ s_stats.writeOperations
       = Cardinality({j \in 1 .. Len(issued) : issued[j].ret = ESP_OK})
  /\ s_stats.bytesDropped = IssuedLen(Len(issued), ESP_FAIL)
  /\ \A j \in 1 .. Len(issued) : issued[j].ret \in {ESP_OK, ESP_FAIL}
  /\ IssuedBytes(Len(issued)) \o SubSeq(writeBuf, 1, pendingBytes)
       = [i \in 1 .. pulled |-> i - 1]
  /\ Len(writeBuf) = pendingBytes

\* a write failed, its bytes were dropped, and the worker went on to issue
\* a write that succeeded
C19_Witness ==
  /\ s_stats.bytesDropped > 0
  /\ s_stats.bytesWrittenToFlash > 0
  /\ \E j \in 1 .. Len(issued) :
       /\ issued[j].ret = ESP_FAIL
       /\ \E k \in (j + 1) .. Len(issued) : issued[k].ret = ESP_OK
  /\ pendingBytes > 0

\* C20: start() and stop() are idempotent toggles of the running flag: they
\* set the flag and touch nothing else; while the flag is false the worker
\* pulls no bytes, issues no FlashRing write and no flushMetadata, and keeps
\* its staged bytes (flushMetadata is then called by flush() alone, at the
\* end of its delay).
C20_StopHoldsTheWorker ==
  [][/\ (op' # op /\ op'.name \in {"start", "stop"})
          => /\ s_running' = (op'.name = "start")
             /\ UNCHANGED <<s_initialized, head, tail, totalWritten,
                            wrapCount, metaErased, s_erasedPages, flash, nvs,
                            erasedBit, crossings, rd, pendingBytes, writeBuf,
                            elapsed, fed, pulled, s_flushSem, flushPc,
                            s_stats, issued, sinceFeed, gapped, flushCalls,
                            head0, metaFlushes>>
     /\ ~s_running
          => /\ pulled' = pulled
             /\ issued' = issued
             /\ writeBuf' = writeBuf
             /\ pendingBytes' = pendingBytes
             /\ s_flushSem => s_flushSem'
             /\ UNCHANGED <<head, tail, totalWritten, wrapCount, flash,
                            s_erasedPages>>
             /\ s_stats.writeOperations' = s_stats.writeOperations
             /\ (metaFlushes' # metaFlushes \/ nvs' # nvs)
                  => (flushPc = "delay" /\ flushPc' = "idle")]_vars

\* the stopped worker has slept through an iteration with bytes staged and
\* more bytes waiting in the source
C20_Witness ==
  /\ ~s_running
  /\ op.name = "idle"
  /\ pendingBytes > 0
  /\ fed > pulled
  /\ elapsed > FlushTimeoutTicks

\* C21: init of the pipeline never reports success for a pipeline whose
\* worker has no staging buffer: when the buffer cannot be allocated the
\* pipeline is not left initialized.
C21_NoBufferNoInit == taskPc = "nobuf" => ~dp_initialized

\* C22: starting from an empty log and with no consume, after successful
\* write calls totalling n bytes usedBytes is min(n, regionSize - 1).
C22_UsedBytesAfterWrites ==
  getUsedBytes = Min(totalWritten, s_partitionSize - 1)

\* C23 as stated: on an empty log a single write call of more bytes than the
\* region holds (70000 for a region of 65536) produces exactly one wrap.
C23_OversizeWriteWrapsOnce ==
  [][(/\ op' # op
      /\ op'.name = "write"
      /\ op'.len > s_partitionSize
      /\ head = 0 /\ tail = 0 /\ totalWritten = 0 /\ wrapCount = 0)
       => wrapCount' = 1]_vars

\* C23 amended: a single write call of more bytes than the region holds is
\* rejected and leaves wrapCount as it was; on an empty log, write calls of
\* at most regionSize bytes each that total n bytes, with no consume, give
\* wrapCount = 0 for n < regionSize and exactly one wrap for
\* regionSize <= n < 2 * regionSize.
C23_OneWrapWhenSplit ==
  /\ [](/\ totalWritten < s_partitionSize => wrapCount = 0
        /\ (s_partitionSize <= totalWritten
              /\ totalWritten < 2 * s_partitionSize) => wrapCount = 1)
  /\ [][(op'.name = "write" /\ op'.len > s_partitionSize)
         => (op'.ret = ESP_ERR_INVALID_SIZE /\ wrapCount' = wrapCount)]_vars

\* more bytes than the region holds were written in several calls, the last
\* one across a page boundary
C23_Witness ==
  /\ op.name = "write"
  /\ op.ret = ESP_OK
  /\ op.len = PAGE_SIZE + 1
  /\ totalWritten > s_partitionSize + PAGE_SIZE
  /\ wrapCount = 1

\* the byte that write() stored at position i of the valid window: the data
\* of the write calls is the stream 0, 1, 2, ... modulo NumVals counted from
\* the empty log, and the window holds its last usedBytes bytes
StoredAt(i) == (totalWritten - getUsedBytes + i) % NumVals

\* C24: with the pre-erase task running, after any sequence of successful
\* writes and consumes every byte of the valid window is intact: the byte
\* read at offset i < usedBytes is the byte that write() stored there, never
\* an erased or older value.
C24_WindowIntact ==
  \A i \in 0 .. (getUsedBytes - 1) :
    flash[(tail + i) % s_partitionSize] = StoredAt(i)

\* C25: a write into a page that already holds bytes of the valid window
\* does not erase them: when head is inside a page whose bytes before head
\* belong to the window, a write that stays within the page leaves those
\* bytes as they were, whatever iterations of the pre-erase task ran since
\* they were written.
C25_SubPageWritesKeepBytes ==
  [][(/\ op'.name = "write"
      /\ op'.ret = ESP_OK
      /\ op'.len > 0
      /\ op'.len <= getBytesToPageEnd
      /\ head % PAGE_SIZE > 0
      /\ getUsedBytes >= head % PAGE_SIZE)
       => \A o \in (head - (head % PAGE_SIZE)) .. (head - 1) :
            flash'[o] = flash[o]]_vars

\* C26: the pre-erase task never races the writer: once write() has found
\* the page of head in the cache or has erased it, the pre-erase task does
\* not erase that page while head is still in it, under any interleaving of
\* the steps of write() with the cache test, the erase and the cache insert
\* of the task.
C26_EraserKeepsOffHeadPage ==
  [][(et.pc = "erase" /\ et'.pc = "mark")
       => et.targetPage # confirmedPage]_vars

\* C27: no flash byte offset is programmed twice without an erase of its
\* page in between: every physical write of write() covers only offsets that
\* still hold the erased value, over any number of passes over the region
\* and any iterations of the pre-erase task in between.
C27_NoByteProgrammedTwice == op.name = "write" => ~op.reprog

\* the bytes programmed by the first k segments of a write() call
PhysUpTo(phys, k) == PhysBytes(SubSeq(phys, 1, k))

\* C28: write() splits the data into physical writes each of which lies
\* inside one page and ends at or before the physical end of the region;
\* taken in order they carry exactly the len bytes of data to consecutive
\* positions modulo regionSize starting at the old head, and head advances
\* by len modulo regionSize; where every page was erased and none was erased
\* during the call, the flash holds the data at those positions.
C28_WriteSplitsAtPages ==
  [][(op'.name = "write" /\ op'.ret = ESP_OK)
       => /\ \A k \in 1 .. Len(op'.phys) :
               /\ op'.phys[k].len > 0
               /\ op'.phys[k].off \div PAGE_SIZE
                    = (op'.phys[k].off + op'.phys[k].len - 1) \div PAGE_SIZE
               /\ op'.phys[k].off + op'.phys[k].len <= s_partitionSize
               /\ op'.phys[k].off
                    = (head + PhysUpTo(op'.phys, k - 1)) % s_partitionSize
               /\ op'.phys[k].data
                    = SubSeq(Pattern(totalWritten, op'.len),
                             PhysUpTo(op'.phys, k - 1) + 1,
                             PhysUpTo(op'.phys, k))
          /\ PhysBytes(op'.phys) = op'.len
          /\ head' = (head + op'.len) % s_partitionSize
          /\ (op'.syncErases = 0 /\ ~op'.reprog)
               => \A j \in 1 .. op'.len :
                    flash'[(head + j - 1) % s_partitionSize]
                      = Pattern(totalWritten, op'.len)[j]]_vars

\* a write of the whole region that started inside a page: one segment more
\* than there are pages, the last ones after the wrap
C28_Witness ==
  /\ op.name = "write"
  /\ op.ret = ESP_OK
  /\ op.len = s_partitionSize
  /\ Len(op.phys) = s_totalPages + 1
  /\ op.phys[1].off % PAGE_SIZE > 0
  /\ head > 0

\* the first page among currentPage + 1 .. currentPage + K, modulo the page
\* count, that is not in the erased-page cache; SIZE_MAX when all are
FirstUncachedAhead ==
  LET currentPage == head \div PAGE_SIZE
      missing == {i \in 1 .. PRE_ERASE_PAGES :
                    \A k \in Slots :
                      s_erasedPages[k] # (currentPage + i) % s_totalPages}
  IN IF missing = {} THEN SIZE_MAX
     ELSE (currentPage + CHOOSE i \in missing : \A j \in missing : i <= j)
            % s_totalPages

\* the pages whose bytes differ between two flash contents
PagesChanged(f, g) == {p \in Pages : \E o \in Offsets :
                                       o \div PAGE_SIZE = p /\ f[o] # g[o]}

\* C29: each iteration of the pre-erase task erases at most one page, the
\* first page among currentPage + 1 .. currentPage + K that is not in the
\* erased-page cache; on success the page is all erased and in the cache, on
\* failure the cache and the flash are unchanged and the same page is the
\* target of the next iteration; it erases nothing when all K pages are
\* cached or the store is not initialized; and it never changes head, tail,
\* wrapCount or totalWritten.
C29_TickErasesFirstUncached ==
  [][op'.name = "tick"
       => /\ UNCHANGED <<head, tail, wrapCount, totalWritten>>
          /\ PagesChanged(flash, flash') \subseteq {FirstUncachedAhead}
          /\ (s_initialized /\ FirstUncachedAhead # SIZE_MAX
                /\ op'.ret = ESP_OK)
               => /\ op'.target = FirstUncachedAhead
                  /\ \A o \in Offsets :
                       o \div PAGE_SIZE = FirstUncachedAhead
                         => flash'[o] = Erased
                  /\ \E k \in Slots :
                       /\ s_erasedPages'[k] = FirstUncachedAhead
                       /\ \A j \in Slots \ {k} :
                            s_erasedPages'[j] = s_erasedPages[j]
          /\ (~s_initialized \/ FirstUncachedAhead = SIZE_MAX
                \/ op'.ret # ESP_OK)
               => /\ flash' = flash
                  /\ s_erasedPages' = s_erasedPages
                  /\ FirstUncachedAhead' = FirstUncachedAhead]_vars

\* after a wrap, an iteration has erased and cached the second page ahead
\* of head, the first one being cached already
C29_Witness ==
  /\ op.name = "tick"
  /\ op.ret = ESP_OK
  /\ wrapCount > 0
  /\ op.target = (head \div PAGE_SIZE + PRE_ERASE_PAGES) % s_totalPages
  /\ erasedBit[op.target]
  /\ \E k \in Slots : s_erasedPages[k] = op.target

\* C30: pre-erase quiescence. Once the writes have stopped and with erases
\* that succeed, the pre-erase task reaches a state where pages
\* currentPage + 1 .. currentPage + K are all in the erased-page cache and
\* from then on erases nothing, for every position of head.
C30_EraserQuiesces == <>[](FirstUncachedAhead = SIZE_MAX)

\* C31: every read and every update of the erased-page cache, the copy in
\* the cursor included, happens under the erase mutex, the snapshot taken by
\* a save included: the cursor is saved only while no other task is inside
\* markPageErased, so the cache it stores is never one that an insert has
\* changed in the in-memory mirror and not yet in the cursor.
C31_SaveUnderMutex ==
  [][nvs' # nvs
       => (~eraseMutexHeld /\ nvs'.erasedPages = s_erasedPages)]_vars

\* the cursor and the flash, as the callers of erase() and write() see them
Outcome(s) == [head |-> s.head, tail |-> s.tail, wrapCount |-> s.wrapCount,
               totalWritten |-> s.totalWritten, flash |-> s.flash]

\* C32: erase() is atomic with respect to a concurrent write(): once both
\* calls have returned, head, tail, wrapCount, totalWritten and the flash are
\* those of the write followed by the erase, or of the erase followed by the
\* write, for every interleaving of their steps.
C32_EraseAtomicWithWrite ==
  (er.pc = "done" /\ er.data # <<>> /\ wr.pc = "idle")
    => \/ Outcome(FR) = Outcome(eraseAll(FR))
       \/ Outcome(FR) = Outcome(write(eraseAll(FR), er.data, NoFault).s)

\* C33: after a power loss at any point and init() from the cursor saved
\* last, erase-before-write still holds: the write that follows the restart
\* programs no byte offset that was programmed since the last erase of its
\* page, the restored head and cache treating as erased nothing that was
\* written after the last save.
C33_RestartKeepsEraseBeforeWrite ==
  [][(op.name = "init" /\ op.valid /\ op'.name = "write")
       => ~op'.reprog]_vars

\* the store after the segments of a write() call that were programmed
\* before the call stopped, had they been a call of their own
AfterSegments(len, phys) ==
  write(FR, SubSeq(Pattern(totalWritten, len), 1, PhysBytes(phys)),
        NoFault).s

\* C34: when a physical write inside write() fails, the cursor is left as
\* it was before that segment: head, tail, wrapCount and totalWritten are
\* those reached by the segments programmed before it, so usedBytes does
\* not shrink for bytes that were never written.
C34_FailedSegmentLeavesCursor ==
  [][(op'.name = "write" /\ op'.ret = ESP_FAIL)
       => /\ head' = AfterSegments(op'.len, op'.phys).head
          /\ tail' = AfterSegments(op'.len, op'.phys).tail
          /\ wrapCount' = AfterSegments(op'.len, op'.phys).wrapCount
          /\ totalWritten' = AfterSegments(op'.len, op'.phys).totalWritten
          /\ getUsedBytesOf(head', tail') >= getUsedBytes]_vars

\* C35: as long as every write succeeds and the pipeline is the only
\* writer, the page-completion write leaves head page-aligned, every
\* full-page write starts at a page-aligned head and a flush write never
\* crosses a page boundary, so each write issued by the pipeline is exactly
\* one physical write.
C35_OnePhysicalWritePerWrite ==
  \A j \in 1 .. Len(issued) :
    AllWritesOk(j) =>
      /\ issued[j].kind = "page"
           => (issued[j].off + Len(issued[j].data)) % PAGE_SIZE = 0
      /\ issued[j].kind = "full" => issued[j].off % PAGE_SIZE = 0
      /\ issued[j].kind = "flush"
           => issued[j].off \div PAGE_SIZE
                = (issued[j].off + Len(issued[j].data) - 1) \div PAGE_SIZE
      /\ issued[j].segs = 1

\* a flush, then from a head inside a page a page-completion write, and a
\* full-page write, with one flush issued on the signal of flush()
C35_Witness ==
  /\ Len(issued) >= 4
  /\ AllWritesOk(Len(issued))
  /\ \E j \in 1 .. Len(issued) :
       issued[j].kind = "flush" /\ issued[j].sem /\ ~issued[j].timeout
  /\ \E j \in 2 .. Len(issued) :
       /\ issued[j].kind = "page"
       /\ issued[j].off % PAGE_SIZE > 0
       /\ issued[j - 1].kind = "flush"
  /\ \E j \in 1 .. Len(issued) : issued[j].kind = "full"

\* C36: pendingBytes never exceeds the capacity of the staging buffer: every
\* receive asks for at most capacity - pendingBytes bytes, so the copy ends
\* inside the buffer, and pendingBytes is below pageSize at the end of every
\* iteration of the worker, whether its writes succeed or fail.
C36_PendingWithinCapacity ==
  /\ [](/\ pendingBytes <= writeChunkSize
        /\ Len(writeBuf) = pendingBytes
        /\ pendingBytes < PAGE_SIZE)
  /\ [][/\ pulled' - pulled <= writeChunkSize - pendingBytes
        /\ pendingBytes + (pulled' - pulled) <= writeChunkSize]_vars

\* the source held more than the buffer had room for: the one iteration
\* that issued writes so far filled the buffer to its capacity, one of its
\* writes failed, and bytes fed before it are still in the source
C36_Witness ==
  /\ op.name = "writer"
  /\ op.writes = Len(issued)
  /\ op.writes >= ChunkPages
  /\ pulled = writeChunkSize
  /\ fed > pulled
  /\ sinceFeed > FlushTimeoutTicks
  /\ s_stats.bytesDropped > 0

\* C37: byte conservation in the pipeline. At the end of every iteration of
\* the worker, while the pipeline is initialized and resetStats has not been
\* called, the bytes pulled from the source are bytesWrittenToFlash +
\* bytesDropped + pendingBytes.
C37_BytesConserved ==
  dp_initialized =>
    pulled = s_stats.bytesWrittenToFlash + s_stats.bytesDropped
               + pendingBytes

\* bytes were dropped by a failed write, others written, a timeout flush has
\* run and bytes pulled since are staged
C37_Witness ==
  /\ dp_initialized
  /\ s_stats.bytesDropped > 0
  /\ s_stats.bytesWrittenToFlash > 0
  /\ s_stats.flushOperations > 0
  /\ pendingBytes > 0
  /\ pulled = MaxStream

\* the byte at position p of the stream is in the staging buffer
Staged(p) == \E i \in 1 .. Len(writeBuf) : writeBuf[i] = p

\* the byte at position p of the stream was passed to FlashRing::write
Passed(p) ==
  \E j \in 1 .. Len(issued) :
    \E i \in 1 .. Len(issued[j].data) : issued[j].data[i] = p

\* C38: while the pipeline stays running and the worker is scheduled
\* fairly, every byte pulled from the source is eventually passed to
\* FlashRing::write and counted as written or dropped: no byte stays in the
\* staging buffer for ever, whether more data keeps arriving or the source
\* goes idle.
C38_StagedBytesLeave ==
  /\ \A p \in 0 .. (MaxStreamLive - 1) :
       Staged(p) ~> (Passed(p) /\ ~Staged(p))
  /\ [](s_stats.bytesWrittenToFlash + s_stats.bytesDropped
          = IssuedLen(Len(issued), ESP_OK) + IssuedLen(Len(issued), ESP_FAIL))

\* bytes left staged by an idle source went out with a timeout flush, later
\* bytes with a page write as more data arrived, and one write failed
C38_Witness ==
  /\ pendingBytes = 0
  /\ pulled = MaxStreamLive
  /\ \E j \in 1 .. Len(issued) :
       /\ issued[j].kind = "flush"
       /\ issued[j].timeout
       /\ \E k \in (j + 1) .. Len(issued) : issued[k].kind = "page"
  /\ \E j \in 1 .. Len(issued) : issued[j].ret = ESP_FAIL
  /\ \A p \in 0 .. (MaxStreamLive - 1) : Passed(p)

\* the step is an iteration of the worker whose last write() is of the kind
LastIssued(kinds) ==
  /\ Len(issued') > Len(issued)
  /\ issued'[Len(issued')].kind \in kinds

\* C39: write() and consume() change only the in-memory cursor: the cursor
\* held by the MetadataStore changes only in init(), erase(), flushMetadata()
\* and deinit(), and the worker calls flushMetadata() only as part of an
\* idle or explicit flush, never after a page-completion or full-page write.
C39_SavedOnlyOnFlush ==
  [][/\ nvs' # nvs
          => \/ op' # op /\ op'.name \in {"init", "erase", "flushMetadata",
                                         "deinit"}
             \/ flushPc = "delay" /\ flushPc' = "idle"
             \/ LastIssued({"flush"})
     /\ (op' # op /\ op'.name = "consume")
          => (nvs' = nvs /\ metaFlushes' = metaFlushes)
     /\ (metaFlushes' # metaFlushes /\ flushPc' = flushPc)
          => (LastIssued({"flush"}) /\ metaFlushes' = metaFlushes + 1)
     /\ LastIssued({"page", "full"})
          => (metaFlushes' = metaFlushes /\ nvs' = nvs)]_vars

\* the worker has written a page and holds the rest of the burst, consume()
\* has moved the tail, and the stored cursor is still the one of the start
C39_Witness ==
  /\ op.name = "consume"
  /\ tail > 0
  /\ head # nvs.head
  /\ tail # nvs.tail
  /\ totalWritten > nvs.totalWritten
  /\ Len(issued) >= 1
  /\ \A j \in 1 .. Len(issued) : issued[j].kind \in {"page", "full"}
  /\ pendingBytes > 0
  /\ metaFlushes = 0

\* the slots of the cache that are empty, and those that hold page p
EmptySlots(cache) == {i \in Slots : cache[i] = SIZE_MAX}

HoldingSlots(cache, p) == {i \in Slots : cache[i] = p}

\* the slots the stated policy may store p into: an empty one when there is
\* one, else one that holds p, else slot 0
PolicySlots(cache, p) ==
  IF EmptySlots(cache) # {} THEN EmptySlots(cache)
  ELSE IF HoldingSlots(cache, p) # {} THEN HoldingSlots(cache, p)
       ELSE {1}

\* the step stores p at index i into the mirror and into the cursor copy
InsertedAt(i, p) ==
  /\ s_erasedPages' = [s_erasedPages EXCEPT ![i] = p]
  /\ metaErased' = [metaErased EXCEPT ![i] = p]

====
